---- MODULE Spec2Model ----
(***************************************************************************)
(* Agentboard: the Business Service (BoardService) on top of the           *)
(* Persistence Gateway (AgentboardDB, SQLite schema) and the Event Bus.    *)
(*                                                                         *)
(* A string is a sequence of characters; " " is the whitespace character.  *)
(* A request value (JavaScript value) is a record tagged with its typeof.  *)
(* Ids stand for the uuids the store generates: a fresh id is the next     *)
(* value of a counter and is never used again.  0 stands for SQL NULL.     *)
(***************************************************************************)
EXTENDS Integers, Sequences, FiniteSets, TLC

\* ------------------------------------------------------------------------
\* Bounds of the model
\* ------------------------------------------------------------------------
MaxOps == 3        \* calls in a behaviour of Spec
MaxBoardOps == 4   \* calls in a behaviour of SpecBoard
MaxTime == 1       \* seconds the clock advances
MaxTeamOps == 5    \* calls in a behaviour of SpecTeam
MaxCascadeOps == 8 \* calls in a behaviour of SpecCascade
MaxFaultOps == 4   \* calls in a behaviour of SpecFault
MaxBusOps == 6     \* calls in a behaviour of SpecBus
MaxGateOps == 6    \* calls in a behaviour of SpecGate
MaxMcpOps == 5     \* calls in a behaviour of SpecMcp
MaxAdminOps == 5   \* calls in a behaviour of SpecAdmin
MaxPagesOps == 9   \* calls in a behaviour of SpecPages
MaxPage == 3       \* the highest page number asked for
MaxPerPage == 3    \* the largest page size asked for
MaxPublishOps == 5 \* calls in a behaviour of SpecPublish
MaxThrowOps == 5   \* calls in a behaviour of SpecThrow
MaxSessionOps == 5 \* calls in a behaviour of SpecSession
MaxLoginOps == 5   \* calls in a behaviour of SpecLogin

\* ------------------------------------------------------------------------
\* Values
\* ------------------------------------------------------------------------
NULL == 0

Undefined == [t |-> "undefined"]
NotAString == [t |-> "number"]
Str(s) == [t |-> "string", v |-> s]

IsString(x) == x.t = "string"

backlog == <<"backlog">>
ready == <<"ready">>
in_progress == <<"in_progress">>
in_review == <<"in_review">>
done == <<"done">>

VALID_COLUMNS == {backlog, ready, in_progress, in_review, done}

isValidColumnAnyString(value) == IsString(value)

isValidColumn(value) == IsString(value) /\ value.v \in VALID_COLUMNS

IsSpace(ch) == ch = " "

RECURSIVE TrimStart(_)
TrimStart(s) ==
    IF s # <<>> /\ IsSpace(Head(s)) THEN TrimStart(Tail(s)) ELSE s

RECURSIVE TrimEnd(_)
TrimEnd(s) ==
    IF s # <<>> /\ IsSpace(s[Len(s)])
    THEN TrimEnd(SubSeq(s, 1, Len(s) - 1))
    ELSE s

Trim(s) == TrimEnd(TrimStart(s))

\* x ?? d
Coalesce(x, d) == IF x.t \in {"undefined", "null"} THEN d ELSE x

\* ------------------------------------------------------------------------
\* State
\* ------------------------------------------------------------------------
VARIABLES
    projects,     \* table projects: id -> row
    agents,       \* table agents: id -> row
    tickets,      \* table tickets: id -> row
    comments,     \* table comments, in insertion order
    revisions,    \* table ticket_revisions, in rowid (insertion) order
    activity,     \* table activity_log, in insertion order
    audit,        \* table audit_log, in insertion order
    nextProject,  \* next fresh project uuid
    nextAgent,    \* next fresh agent uuid
    nextTicket,   \* next fresh ticket uuid
    now,          \* the store's clock, datetime('now'), in seconds
    ops,          \* number of service calls made so far
    events,       \* payloads published by the last call, in publish order
    subs,         \* the subscriptions made on the event bus, in order of creation
    last,         \* the last service call: arguments, outcome, store before it
    settings,     \* table settings: the value stored under admin_api_key
    nextKey,      \* next fresh admin key uuid
    mcpSessions,  \* the server's in-memory MCP sessions: session id -> agent id
    mcpStore,     \* the persisted MCP sessions: session id -> agent id
    nextSession,  \* next fresh MCP session uuid
    ADMIN_API_KEY, \* the admin key the server process read when it started
    sessions,     \* table sessions: the tokens of the UI logins
    request       \* the last HTTP exchange: what was sent and how it was answered

vars == <<projects, agents, tickets, comments, revisions, activity, audit,
          nextProject, nextAgent, nextTicket, now, ops, events, subs, last,
          settings, nextKey, mcpSessions, mcpStore, nextSession, ADMIN_API_KEY,
          sessions, request>>

\* What the server keeps besides the board.
server == <<settings, nextKey, mcpSessions, mcpStore, nextSession, ADMIN_API_KEY, sessions>>

store == <<projects, agents, tickets, comments, revisions, activity, audit,
           nextProject, nextAgent, nextTicket>>

NoTicket == [id |-> NULL]

\* No HTTP exchange: the service was called directly.
NoRequest ==
    [route |-> "none", header |-> Undefined, accept |-> TRUE, session |-> NULL,
     initialize |-> FALSE, fault |-> "none", status |-> 0, code |-> 0,
     headersSent |-> FALSE, agentId |-> NULL, ran |-> FALSE, forwarded |-> FALSE,
     key |-> Undefined, settingsBefore |-> Undefined, sessionsBefore |-> <<>>,
     persistedBefore |-> <<>>]

NoUpdates == [title |-> Undefined, description |-> Undefined, column |-> Undefined]

Call(op, result, p, t, updates, actor, ret) ==
    [op |-> op, result |-> result, projectId |-> p, ticketId |-> t,
     updates |-> updates, actor |-> actor,
     before |-> IF t \in DOMAIN tickets THEN tickets[t] ELSE NoTicket,
     ticketsBefore |-> tickets, agentsBefore |-> agents,
     revsBefore |-> revisions, actBefore |-> activity,
     commentsBefore |-> comments, auditBefore |-> audit,
     subsBefore |-> subs,
     name |-> Undefined, fault |-> "none", ret |-> ret]

Named(call, name) == [call EXCEPT !.name = name]

\* The call during which a write to the named log table failed.
Faulted(call, fault) == [call EXCEPT !.fault = fault]

Init ==
    /\ projects = <<>>
    /\ agents = <<>>
    /\ tickets = <<>>
    /\ comments = <<>>
    /\ revisions = <<>>
    /\ activity = <<>>
    /\ audit = <<>>
    /\ nextProject = 1
    /\ nextAgent = 1
    /\ nextTicket = 1
    /\ now = 0
    /\ ops = 0
    /\ events = <<>>
    /\ subs = <<>>
    /\ last = [op |-> "init", result |-> "ok", projectId |-> NULL, ticketId |-> NULL,
               updates |-> NoUpdates, actor |-> NULL, before |-> NoTicket,
               ticketsBefore |-> <<>>, agentsBefore |-> <<>>,
               revsBefore |-> <<>>, actBefore |-> <<>>,
               commentsBefore |-> <<>>, auditBefore |-> <<>>,
               subsBefore |-> <<>>,
               name |-> Undefined, fault |-> "none", ret |-> <<>>]
    /\ settings = Undefined
    /\ nextKey = 1
    /\ mcpSessions = <<>>
    /\ mcpStore = <<>>
    /\ nextSession = 1
    /\ ADMIN_API_KEY = Undefined
    /\ sessions = {}
    /\ request = NoRequest

\* ------------------------------------------------------------------------
\* Persistence Gateway (AgentboardDB and the schema)
\* ------------------------------------------------------------------------
Put(f, k, row) == [x \in DOMAIN f \cup {k} |-> IF x = k THEN row ELSE f[x]]

Remove(f, ks) == [x \in DOMAIN f \ ks |-> f[x]]

SetMax(S) == CHOOSE m \in S : \A x \in S : x <= m

\* SELECT COALESCE(MAX(position), -1) ... WHERE project_id = ? AND column_name = ?
MaxPosAnyColumn(tks, p, col) ==
    LET ps == {tks[i].position : i \in {j \in DOMAIN tks : tks[j].projectId = p}}
    IN IF ps = {} THEN -1 ELSE SetMax(ps)

MaxPos(tks, p, col) ==
    LET ps == {tks[i].position : i \in {j \in DOMAIN tks :
                    tks[j].projectId = p /\ tks[j].column = col}}
    IN IF ps = {} THEN -1 ELSE SetMax(ps)

\* SELECT * FROM tickets WHERE id = ? AND project_id = ?
dbGetTicketInAnyProject(p, t) ==
    IF t \in DOMAIN tickets THEN tickets[t] ELSE NoTicket

dbGetTicket(p, t) ==
    IF t \in DOMAIN tickets /\ tickets[t].projectId = p THEN tickets[t] ELSE NoTicket

dbCreateTicketDefaultPosition(id, p, title, description, column, agentId) ==
    [id |-> id, projectId |-> p, title |-> title, description |-> description,
     column |-> column, position |-> 0,
     agentId |-> agentId, createdAt |-> now, updatedAt |-> now]

dbCreateTicket(id, p, title, description, column, agentId) ==
    [id |-> id, projectId |-> p, title |-> title, description |-> description,
     column |-> column, position |-> MaxPos(tickets, p, column) + 1,
     agentId |-> agentId, createdAt |-> now, updatedAt |-> now]

\* DELETE FROM tickets WHERE id = ? AND project_id = ?
dbDeleteTicketKeepsRow(t) == tickets

dbDeleteTicketRenumbering(t) ==
    [x \in DOMAIN tickets \ {t} |->
        IF /\ tickets[x].projectId = tickets[t].projectId
           /\ tickets[x].column = tickets[t].column
           /\ tickets[x].position > tickets[t].position
        THEN [tickets[x] EXCEPT !.position = @ - 1]
        ELSE tickets[x]]

dbDeleteTicket(t) == Remove(tickets, {t})

logRevisionWithoutActor(ticketId, agentId, field, oldValue, newValue) ==
    [ticketId |-> ticketId, agentId |-> NULL, field |-> field,
     oldValue |-> oldValue, newValue |-> newValue, timestamp |-> now]

logRevision(ticketId, agentId, field, oldValue, newValue) ==
    [ticketId |-> ticketId, agentId |-> agentId, field |-> field,
     oldValue |-> oldValue, newValue |-> newValue, timestamp |-> now]

\* newX !== existing.X
Changed(new, old) == new # old

\* let newPosition = existing.position; if (newColumn !== existing.column) ...
NewPositionAlwaysAppend(existing, newColumn) ==
    MaxPos(tickets, existing.projectId, newColumn) + 1

NewPositionKeepsNumber(existing, newColumn) == existing.position

NewPosition(existing, newColumn) ==
    IF Changed(newColumn, existing.column)
    THEN MaxPos(tickets, existing.projectId, newColumn) + 1
    ELSE existing.position

\* The revisions one updateTicket call logs, in the order it logs them.
UpdateRevisionsNoDescription(existing, newTitle, newDescription, newColumn, actor) ==
    (IF Changed(newTitle, existing.title)
     THEN <<logRevision(existing.id, actor, "title", existing.title, newTitle)>>
     ELSE <<>>)
    \o
    (IF Changed(newColumn, existing.column)
     THEN <<logRevision(existing.id, actor, "column", existing.column, newColumn)>>
     ELSE <<>>)

UpdateRevisions(existing, newTitle, newDescription, newColumn, actor) ==
    (IF Changed(newTitle, existing.title)
     THEN <<logRevision(existing.id, actor, "title", existing.title, newTitle)>>
     ELSE <<>>)
    \o
    (IF Changed(newDescription, existing.description)
     THEN <<logRevision(existing.id, actor, "description",
                        existing.description, newDescription)>>
     ELSE <<>>)
    \o
    (IF Changed(newColumn, existing.column)
     THEN <<logRevision(existing.id, actor, "column", existing.column, newColumn)>>
     ELSE <<>>)

dbUpdateTicketUnlogged(existing, updates, actorId) ==
    LET newTitle == Coalesce(updates.title, Str(existing.title)).v
        newDescription == Coalesce(updates.description, Str(existing.description)).v
        newColumn == Coalesce(updates.column, Str(existing.column)).v
    IN [ticket |-> [existing EXCEPT !.title = newTitle,
                                    !.description = newDescription,
                                    !.column = newColumn,
                                    !.position = NewPosition(existing, newColumn),
                                    !.updatedAt = now],
        revs |-> <<>>]

\* AgentboardDB.updateTicket on an existing row: the new row and the logged revisions.
dbUpdateTicket(existing, updates, actorId) ==
    LET newTitle == Coalesce(updates.title, Str(existing.title)).v
        newDescription == Coalesce(updates.description, Str(existing.description)).v
        newColumn == Coalesce(updates.column, Str(existing.column)).v
    IN [ticket |-> [existing EXCEPT !.title = newTitle,
                                    !.description = newDescription,
                                    !.column = newColumn,
                                    !.position = NewPosition(existing, newColumn),
                                    !.updatedAt = now],
        revs |-> UpdateRevisions(existing, newTitle, newDescription, newColumn, actorId)]

dbMoveTicket(existing, column, actorId) ==
    dbUpdateTicket(existing, [NoUpdates EXCEPT !.column = Str(column)], actorId)

logActivity(agentId, ticketId, action) ==
    [agentId |-> agentId, ticketId |-> ticketId, action |-> action, timestamp |-> now]

logAudit(agentId, method, path) ==
    [agentId |-> agentId, method |-> method, path |-> path, statusCode |-> 200,
     timestamp |-> now]

\* agents.name TEXT NOT NULL UNIQUE
NameNeverTaken(name) == FALSE

NameTaken(name) == \E a \in DOMAIN agents : agents[a].name = name

\* ON DELETE SET NULL on an agent_id column
NullAgentKeepsReference(row, id) == row

NullAgent(row, id) == IF row.agentId = id THEN [row EXCEPT !.agentId = NULL] ELSE row

NullAgentSeq(rows, id) == [i \in DOMAIN rows |-> NullAgent(rows[i], id)]

\* comments.agent_id ... ON DELETE CASCADE: the comments of the deleted agent go.
WithoutAgentNulled(rows, id) == NullAgentSeq(rows, id)

WithoutAgent(rows, id) == SelectSeq(rows, LAMBDA c : c.agentId # id)

\* ON DELETE CASCADE on a ticket_id column: the rows of the deleted tickets go.
WithoutTicketsKeepRows(rows, gone) == rows

WithoutTicketsClearsTable(rows, gone) == <<>>

WithoutTickets(rows, gone) == SelectSeq(rows, LAMBDA r : r.ticketId \notin gone)

RevisionsOf(rows, t) == SelectSeq(rows, LAMBDA r : r.ticketId = t)

\* SELECT ... ORDER BY timestamp ASC: every arrangement of the rows rows[i], i in idx,
\* with non-decreasing timestamps; rows of equal timestamp come in any order.
RECURSIVE OrderByTimestamp(_, _)
OrderByTimestamp(rows, idx) ==
    IF idx = {} THEN {<<>>}
    ELSE UNION {{<<rows[i]>> \o s : s \in OrderByTimestamp(rows, idx \ {i})} :
                i \in {j \in idx : \A k \in idx : rows[j].timestamp <= rows[k].timestamp}}

dbGetRevisionsByTicket(t) ==
    LET rows == RevisionsOf(revisions, t) IN OrderByTimestamp(rows, DOMAIN rows)

CommentsOf(rows, t) == SelectSeq(rows, LAMBDA c : c.ticketId = t)

\* SELECT ... FROM comments ... ORDER BY created_at ASC
RECURSIVE OrderByCreatedAt(_, _)
OrderByCreatedAt(rows, idx) ==
    IF idx = {} THEN {<<>>}
    ELSE UNION {{<<rows[i]>> \o s : s \in OrderByCreatedAt(rows, idx \ {i})} :
                i \in {j \in idx : \A k \in idx : rows[j].createdAt <= rows[k].createdAt}}

dbGetCommentsByTicket(t) ==
    LET rows == CommentsOf(comments, t) IN OrderByCreatedAt(rows, DOMAIN rows)

\* The rank of a column name in the string order of ORDER BY column_name.
ColumnRank(c) ==
    CASE c = backlog -> 1
      [] c = done -> 2
      [] c = in_progress -> 3
      [] c = in_review -> 4
      [] c = ready -> 5

TicketBefore(a, b) ==
    \/ ColumnRank(a.column) < ColumnRank(b.column)
    \/ a.column = b.column /\ a.position <= b.position

\* SELECT * FROM tickets WHERE project_id = ? ORDER BY column_name, position ASC
RECURSIVE OrderByColumnPosition(_)
OrderByColumnPosition(ids) ==
    IF ids = {} THEN {<<>>}
    ELSE UNION {{<<tickets[i]>> \o s : s \in OrderByColumnPosition(ids \ {i})} :
                i \in {j \in ids : \A k \in ids : TicketBefore(tickets[j], tickets[k])}}

dbGetTicketsByProject(p) ==
    OrderByColumnPosition({t \in DOMAIN tickets : tickets[t].projectId = p})

\* ------------------------------------------------------------------------
\* Event Bus: what the service publishes
\* ------------------------------------------------------------------------
Event(channel, p, payload) == [channel |-> channel, projectId |-> p, payload |-> payload]

AuditEvent(row) == Event("AUDIT_ADDED", NULL, row)

\* The result of one next() call on an iterator.
Pending == [state |-> "pending"]
Done == [state |-> "done"]
Value(payload) == [state |-> "value", value |-> payload]

\* What subscribe(event) creates: the two queues, the done flag and the handler
\* registered on the emitter.  pullQueue holds the resolvers of the pending
\* next() calls, each named by the number of its call; calls holds the result
\* of every next() call so far; heard is the history of the payloads emitted
\* on the event while the handler was registered.
\* A subscription made with a filter also has the wrapper around the iterator:
\* filter is the project id the subscription is scoped to (null without a
\* filter), outer holds the wrapper's next() calls, each with its result and
\* the number of the inner next() call it awaits, and yielded is the
\* history of the payloads the wrapper has returned, in the order it returned them.
NewSubscription(event) ==
    [event |-> event, pullQueue |-> <<>>, pushQueue |-> <<>>, done |-> FALSE,
     listening |-> TRUE, calls |-> <<>>, heard |-> <<>>,
     filter |-> NULL, outer |-> <<>>, yielded |-> <<>>]

handlerBuffersAlways(s, payload) ==
    [s EXCEPT !.pushQueue = Append(@, payload)]

handler(s, payload) ==
    IF s.pullQueue # <<>>
    THEN [s EXCEPT !.pullQueue = Tail(@),
                   !.calls[Head(s.pullQueue)] = Value(payload)]
    ELSE [s EXCEPT !.pushQueue = Append(@, payload)]

\* iterator.next()
next(s) ==
    IF s.done THEN [s EXCEPT !.calls = Append(@, Done)]
    ELSE IF s.pushQueue # <<>>
    THEN [s EXCEPT !.pushQueue = Tail(@), !.calls = Append(@, Value(Head(s.pushQueue)))]
    ELSE [s EXCEPT !.pullQueue = Append(@, Len(s.calls) + 1),
                   !.calls = Append(@, Pending)]

\* iterator.return()
returnLeavesHandlerOn(s) ==
    [s EXCEPT !.done = TRUE,
              !.calls = [k \in DOMAIN s.calls |->
                            IF \E j \in DOMAIN s.pullQueue : s.pullQueue[j] = k
                            THEN Done ELSE s.calls[k]],
              !.pullQueue = <<>>, !.pushQueue = <<>>]

return(s) ==
    [s EXCEPT !.done = TRUE, !.listening = FALSE,
              !.calls = [k \in DOMAIN s.calls |->
                            IF \E j \in DOMAIN s.pullQueue : s.pullQueue[j] = k
                            THEN Done ELSE s.calls[k]],
              !.pullQueue = <<>>, !.pushQueue = <<>>]

\* iterator.throw(error): the flag is set and the handler is taken off the
\* emitter; the two queues are left as they are.
throw(s) == [s EXCEPT !.done = TRUE, !.listening = FALSE]

\* (payload) => payload.projectId === args.projectId
PassesAnyProject(filter, ev) == TRUE

Passes(filter, ev) == ev.projectId = filter

\* The wrapper's loop for its k-th next() call: take the result of the inner
\* next() it awaits; return it when the iterator is done or the payload passes
\* the filter; otherwise call the inner next() again.
RECURSIVE FilterLoop(_, _)
FilterLoop(s, k) ==
    LET result == s.calls[s.outer[k].inner]
    IN IF result.state = "pending" THEN s
       ELSE IF result.state = "done"
       THEN [s EXCEPT !.outer[k].state = "done"]
       ELSE IF Passes(s.filter, result.value)
       THEN [s EXCEPT !.outer[k].state = "value",
                      !.yielded = Append(@, result.value)]
       ELSE LET again == next(s)
            IN FilterLoop([again EXCEPT !.outer[k].inner = Len(again.calls)], k)

\* The wrapper calls whose awaited inner next() has a result resume.
Resumable(s) ==
    {k \in DOMAIN s.outer :
        s.outer[k].state = "pending" /\ s.calls[s.outer[k].inner].state # "pending"}

RECURSIVE Resume(_)
Resume(s) ==
    IF Resumable(s) = {} THEN s
    ELSE Resume(FilterLoop(s, CHOOSE k \in Resumable(s) : \A j \in Resumable(s) : k <= j))

\* The next() of the wrapper that asyncIterableIterator returns.
filteredNext(s) ==
    LET first == next(s)
        k == Len(s.outer) + 1
    IN FilterLoop([first EXCEPT !.outer = Append(@, [state |-> "pending",
                                                    inner |-> Len(first.calls)])], k)

\* emitter.emit(event, payload): every handler registered on the event runs.
Emit(ss, ev) ==
    [i \in DOMAIN ss |->
        IF ss[i].listening /\ ss[i].event = ev.channel
        THEN Resume([handler(ss[i], ev) EXCEPT !.heard = Append(@, ev)])
        ELSE ss[i]]

\* The publish calls of one operation, in order.
RECURSIVE PublishAll(_, _)
PublishAll(ss, evs) ==
    IF evs = <<>> THEN ss ELSE PublishAll(Emit(ss, Head(evs)), Tail(evs))

\* ------------------------------------------------------------------------
\* Business Service (BoardService)
\* ------------------------------------------------------------------------
Actors == {NULL} \cup DOMAIN agents

Fail(call) ==
    /\ last' = call
    /\ events' = <<>>
    /\ ops' = ops + 1
    /\ subs' = PublishAll(subs, events')
    /\ UNCHANGED <<store, now, server>>

\* createAgent with a key that is not generated anew.
CreateAgentWithTheFirstKey(name) ==
    /\ IF ~IsString(name) \/ Len(Trim(name.v)) = 0
       THEN Fail(Named(Call("createAgent", "Validation", NULL, NULL, NoUpdates, NULL, <<>>),
                       name))
       ELSE IF NameTaken(Trim(name.v))
       THEN Fail(Named(Call("createAgent", "Duplicate", NULL, NULL, NoUpdates, NULL, <<>>),
                       name))
       ELSE
         /\ LET row == [id |-> nextAgent, name |-> Trim(name.v), apiKey |-> 1,
                        createdAt |-> now]
                entry == logAudit(NULL, "CREATE", "agent")
            IN /\ agents' = Put(agents, nextAgent, row)
               /\ nextAgent' = nextAgent + 1
               /\ audit' = Append(audit, entry)
               /\ events' = <<Event("AGENT_CHANGED", NULL, row), AuditEvent(entry)>>
               /\ last' = Named(Call("createAgent", "ok", NULL, NULL, NoUpdates, NULL, row),
                               name)
         /\ ops' = ops + 1
         /\ subs' = PublishAll(subs, events')
         /\ UNCHANGED <<projects, tickets, comments, revisions, activity,
                        nextProject, nextTicket, now, server>>

CreateAgent(name) ==
    /\ IF ~IsString(name) \/ Len(Trim(name.v)) = 0
       THEN Fail(Named(Call("createAgent", "Validation", NULL, NULL, NoUpdates, NULL, <<>>),
                       name))
       ELSE IF NameTaken(Trim(name.v))
       THEN Fail(Named(Call("createAgent", "Duplicate", NULL, NULL, NoUpdates, NULL, <<>>),
                       name))
       ELSE
         /\ LET row == [id |-> nextAgent, name |-> Trim(name.v), apiKey |-> nextAgent,
                        createdAt |-> now]
                entry == logAudit(NULL, "CREATE", "agent")
            IN /\ agents' = Put(agents, nextAgent, row)
               /\ nextAgent' = nextAgent + 1
               /\ audit' = Append(audit, entry)
               /\ events' = <<Event("AGENT_CHANGED", NULL, row), AuditEvent(entry)>>
               /\ last' = Named(Call("createAgent", "ok", NULL, NULL, NoUpdates, NULL, row),
                               name)
         /\ ops' = ops + 1
         /\ subs' = PublishAll(subs, events')
         /\ UNCHANGED <<projects, tickets, comments, revisions, activity,
                        nextProject, nextTicket, now, server>>

DeleteAgent(id) ==
    /\ IF id \notin DOMAIN agents
       THEN Fail(Call("deleteAgent", "NotFound", NULL, NULL, NoUpdates, NULL, <<>>))
       ELSE
         /\ agents' = Remove(agents, {id})
         /\ tickets' = [t \in DOMAIN tickets |-> NullAgent(tickets[t], id)]
         /\ comments' = WithoutAgent(comments, id)
         /\ revisions' = NullAgentSeq(revisions, id)
         /\ activity' = NullAgentSeq(activity, id)
         /\ audit' = NullAgentSeq(audit, id)
         /\ events' = <<Event("AGENT_CHANGED", NULL, agents[id])>>
         /\ last' = Call("deleteAgent", "ok", NULL, NULL, NoUpdates, NULL, agents[id])
         /\ ops' = ops + 1
         /\ subs' = PublishAll(subs, events')
         /\ UNCHANGED <<projects, nextProject, nextAgent, nextTicket, now, server>>

CreateProject(name) ==
    /\ IF ~IsString(name) \/ Len(Trim(name.v)) = 0
       THEN Fail(Call("createProject", "Validation", NULL, NULL, NoUpdates, NULL, <<>>))
       ELSE
         /\ LET row == [id |-> nextProject, name |-> Trim(name.v), createdAt |-> now]
                entry == logAudit(NULL, "CREATE", "project")
            IN /\ projects' = Put(projects, nextProject, row)
               /\ nextProject' = nextProject + 1
               /\ audit' = Append(audit, entry)
               /\ events' = <<Event("PROJECT_CHANGED", NULL, row), AuditEvent(entry)>>
               /\ last' = Call("createProject", "ok", nextProject, NULL, NoUpdates, NULL, row)
         /\ ops' = ops + 1
         /\ subs' = PublishAll(subs, events')
         /\ UNCHANGED <<agents, tickets, comments, revisions, activity,
                        nextAgent, nextTicket, now, server>>

\* ON DELETE CASCADE: projects -> tickets -> comments, ticket_revisions
DeleteProject(id) ==
    /\ IF id \notin DOMAIN projects
       THEN Fail(Call("deleteProject", "NotFound", id, NULL, NoUpdates, NULL, <<>>))
       ELSE
         LET gone == {t \in DOMAIN tickets : tickets[t].projectId = id}
             entry == logAudit(NULL, "DELETE", "project")
         IN /\ projects' = Remove(projects, {id})
            /\ tickets' = Remove(tickets, gone)
            /\ comments' = WithoutTickets(comments, gone)
            /\ revisions' = WithoutTickets(revisions, gone)
            /\ audit' = Append(audit, entry)
            /\ events' = <<Event("PROJECT_CHANGED", NULL, projects[id]), AuditEvent(entry)>>
            /\ last' = Call("deleteProject", "ok", id, NULL, NoUpdates, NULL, projects[id])
            /\ ops' = ops + 1
            /\ subs' = PublishAll(subs, events')
            /\ UNCHANGED <<agents, activity, nextProject, nextAgent, nextTicket, now, server>>

\* typeof title !== 'string' || title.trim().length === 0
TitleInvalidUntrimmed(title) == ~IsString(title) \/ Len(title.v) = 0

TitleInvalid(title) == ~IsString(title) \/ Len(Trim(title.v)) = 0

CreateTicket(p, title, description, column, agentId) ==
    LET args == [title |-> title, description |-> description, column |-> column]
        col == Coalesce(column, Str(backlog))
    IN
    /\ IF p \notin DOMAIN projects
       THEN Fail(Call("createTicket", "NotFound", p, NULL, args, agentId, <<>>))
       ELSE IF TitleInvalid(title)
       THEN Fail(Call("createTicket", "Validation", p, NULL, args, agentId, <<>>))
       ELSE IF ~isValidColumn(col)
       THEN Fail(Call("createTicket", "Validation", p, NULL, args, agentId, <<>>))
       ELSE
         /\ LET ticket == dbCreateTicket(nextTicket, p, Trim(title.v),
                                         Coalesce(description, Str(<<>>)).v, col.v, agentId)
                entry == logAudit(agentId, "CREATE", "ticket")
            IN /\ tickets' = Put(tickets, nextTicket, ticket)
               /\ nextTicket' = nextTicket + 1
               /\ activity' = Append(activity,
                                     logActivity(agentId, nextTicket, "ticket_created"))
               /\ audit' = Append(audit, entry)
               /\ events' = <<Event("TICKET_CREATED", p, ticket), AuditEvent(entry)>>
               /\ last' = Call("createTicket", "ok", p, nextTicket, args, agentId, ticket)
         /\ ops' = ops + 1
         /\ subs' = PublishAll(subs, events')
         /\ UNCHANGED <<projects, agents, comments, revisions, nextProject, nextAgent, now, server>>

\* The three field checks of BoardService.updateTicket
UpdateInvalidNoColumnCheck(updates) ==
    \/ updates.title # Undefined
       /\ (~IsString(updates.title) \/ Len(Trim(updates.title.v)) = 0)
    \/ updates.description # Undefined /\ ~IsString(updates.description)

UpdateInvalid(updates) ==
    \/ updates.title # Undefined
       /\ (~IsString(updates.title) \/ Len(Trim(updates.title.v)) = 0)
    \/ updates.description # Undefined /\ ~IsString(updates.description)
    \/ updates.column # Undefined /\ ~isValidColumn(updates.column)

cleanUpdatesUntrimmed(updates) ==
    [title |-> updates.title,
     description |-> IF IsString(updates.description) THEN updates.description
                     ELSE Undefined,
     column |-> IF isValidColumn(updates.column) THEN updates.column ELSE Undefined]

cleanUpdates(updates) ==
    [title |-> IF IsString(updates.title) THEN Str(Trim(updates.title.v)) ELSE Undefined,
     description |-> IF IsString(updates.description) THEN updates.description
                     ELSE Undefined,
     column |-> IF isValidColumn(updates.column) THEN updates.column ELSE Undefined]

\* What a ticket mutation publishes after the store is written.
TicketEventsOnlyOnChange(channel, ticket, revs, entries) ==
    IF revs = <<>> THEN <<>>
    ELSE <<Event(channel, ticket.projectId, ticket)>>
         \o [i \in DOMAIN entries |-> AuditEvent(entries[i])]

TicketEventsPerRevision(channel, ticket, revs, entries) ==
    [i \in DOMAIN revs |-> Event(channel, ticket.projectId, ticket)]
    \o [i \in DOMAIN entries |-> AuditEvent(entries[i])]

\* The publication made before the write: the payload is the stored row.
TicketEventsBeforeWrite(channel, ticket, revs, entries) ==
    <<Event(channel, ticket.projectId, tickets[ticket.id])>>
    \o [i \in DOMAIN entries |-> AuditEvent(entries[i])]

TicketEvents(channel, ticket, revs, entries) ==
    <<Event(channel, ticket.projectId, ticket)>>
    \o [i \in DOMAIN entries |-> AuditEvent(entries[i])]

\* The store writes and publications shared by updateTicket, moveTicket,
\* closeTicket and openTicket once the arguments are accepted.
ApplyTicketChange(op, p, t, args, actor, upd, action, channel, entries) ==
    /\ tickets' = [tickets EXCEPT ![t] = upd.ticket]
    /\ revisions' = revisions \o upd.revs
    /\ activity' = Append(activity, logActivity(actor, t, action))
    /\ audit' = audit \o entries
    /\ events' = TicketEvents(channel, upd.ticket, upd.revs, entries)
    /\ last' = Call(op, "ok", p, t, args, actor, upd.ticket)
    /\ ops' = ops + 1
    /\ subs' = PublishAll(subs, events')
    /\ UNCHANGED <<projects, agents, comments, nextProject, nextAgent, nextTicket, now, server>>

UpdateTicket(p, t, updates, actor) ==
    /\ IF dbGetTicket(p, t) = NoTicket
       THEN Fail(Call("updateTicket", "NotFound", p, t, updates, actor, <<>>))
       ELSE IF UpdateInvalid(updates)
       THEN Fail(Call("updateTicket", "Validation", p, t, updates, actor, <<>>))
       ELSE ApplyTicketChange("updateTicket", p, t, updates, actor,
                dbUpdateTicket(dbGetTicket(p, t), cleanUpdates(updates), actor),
                "ticket_updated", "TICKET_UPDATED",
                <<logAudit(actor, "UPDATE", "ticket")>>)

MoveTicket(p, t, column, actor) ==
    LET args == [NoUpdates EXCEPT !.column = column] IN
    /\ IF dbGetTicket(p, t) = NoTicket
       THEN Fail(Call("moveTicket", "NotFound", p, t, args, actor, <<>>))
       ELSE IF ~isValidColumn(column)
       THEN Fail(Call("moveTicket", "Validation", p, t, args, actor, <<>>))
       ELSE ApplyTicketChange("moveTicket", p, t, args, actor,
                dbMoveTicket(dbGetTicket(p, t), column.v, actor),
                "ticket_moved", "TICKET_MOVED",
                <<logAudit(actor, "MOVE", "ticket")>>)

CloseTicket(p, t) ==
    /\ IF dbGetTicket(p, t) = NoTicket
       THEN Fail(Call("closeTicket", "NotFound", p, t, NoUpdates, NULL, <<>>))
       ELSE ApplyTicketChange("closeTicket", p, t, NoUpdates, NULL,
                dbMoveTicket(dbGetTicket(p, t), done, NULL),
                "ticket_moved", "TICKET_MOVED", <<>>)

OpenTicket(p, t) ==
    /\ IF dbGetTicket(p, t) = NoTicket
       THEN Fail(Call("openTicket", "NotFound", p, t, NoUpdates, NULL, <<>>))
       ELSE ApplyTicketChange("openTicket", p, t, NoUpdates, NULL,
                dbMoveTicket(dbGetTicket(p, t), backlog, NULL),
                "ticket_moved", "TICKET_MOVED", <<>>)

\* ON DELETE CASCADE: tickets -> comments, ticket_revisions
DeleteTicket(p, t, actor) ==
    /\ IF dbGetTicket(p, t) = NoTicket
       THEN Fail(Call("deleteTicket", "NotFound", p, t, NoUpdates, actor, <<>>))
       ELSE
         LET entry == logAudit(actor, "DELETE", "ticket")
         IN /\ tickets' = dbDeleteTicket(t)
            /\ comments' = WithoutTickets(comments, {t})
            /\ revisions' = WithoutTickets(revisions, {t})
            /\ audit' = Append(audit, entry)
            /\ events' = <<Event("TICKET_DELETED", p, tickets[t]), AuditEvent(entry)>>
            /\ last' = Call("deleteTicket", "ok", p, t, NoUpdates, actor, tickets[t])
            /\ ops' = ops + 1
            /\ subs' = PublishAll(subs, events')
            /\ UNCHANGED <<projects, agents, activity, nextProject, nextAgent,
                           nextTicket, now, server>>

CreateComment(p, t, agentId, body) ==
    /\ IF dbGetTicket(p, t) = NoTicket
       THEN Fail(Call("createComment", "NotFound", p, t, NoUpdates, agentId, <<>>))
       ELSE IF ~IsString(body) \/ Len(Trim(body.v)) = 0
       THEN Fail(Call("createComment", "Validation", p, t, NoUpdates, agentId, <<>>))
       ELSE
         LET comment == [ticketId |-> t, agentId |-> agentId, body |-> Trim(body.v),
                         createdAt |-> now]
             act == logActivity(agentId, t, "comment_added")
             entry == logAudit(agentId, "COMMENT", "ticket")
         IN /\ comments' = Append(comments, comment)
            /\ activity' = Append(activity, act)
            /\ audit' = Append(audit, entry)
            /\ events' = <<Event("ACTIVITY_ADDED", p, act),
                           Event("COMMENT_ADDED", p, comment), AuditEvent(entry)>>
            /\ last' = Call("createComment", "ok", p, t, NoUpdates, agentId, comment)
            /\ ops' = ops + 1
            /\ subs' = PublishAll(subs, events')
            /\ UNCHANGED <<projects, agents, tickets, revisions, nextProject, nextAgent,
                           nextTicket, now, server>>

GetRevisionsByTicket(p, t, viewer) ==
    /\ IF dbGetTicket(p, t) = NoTicket
       THEN Fail(Call("getRevisionsByTicket", "NotFound", p, t, NoUpdates, viewer, <<>>))
       ELSE
         /\ \E rows \in dbGetRevisionsByTicket(t) :
               last' = Call("getRevisionsByTicket", "ok", p, t, NoUpdates, viewer, rows)
         /\ IF viewer # NULL
            THEN LET entry == logAudit(viewer, "READ", "history")
                     act == logActivity(viewer, t, "history_read")
                 IN /\ audit' = Append(audit, entry)
                    /\ activity' = Append(activity, act)
                    /\ events' = (IF viewer \in DOMAIN agents
                                  THEN <<Event("TICKET_VIEWED", p, [ticketId |-> t,
                                                                    agentId |-> viewer])>>
                                  ELSE <<>>)
                                 \o <<AuditEvent(entry), Event("ACTIVITY_ADDED", p, act)>>
            ELSE /\ events' = <<>>
                 /\ UNCHANGED <<audit, activity>>
         /\ ops' = ops + 1
         /\ subs' = PublishAll(subs, events')
         /\ UNCHANGED <<projects, agents, tickets, comments, revisions,
                        nextProject, nextAgent, nextTicket, now, server>>

\* The store refuses a write to a log table (activity_log or audit_log) during
\* a mutation.  The insert throws; nothing in the service catches it.
LogTables == {"activity", "audit"}

\* createTicket when the insert into the failing log table throws: the ticket
\* is already inserted; the statements after the throwing one do not run.
CreateTicketLogFails(p, title, description, column, agentId, failing) ==
    LET args == [title |-> title, description |-> description, column |-> column]
        col == Coalesce(column, Str(backlog))
    IN
    /\ IF p \notin DOMAIN projects
       THEN Fail(Call("createTicket", "NotFound", p, NULL, args, agentId, <<>>))
       ELSE IF TitleInvalid(title) \/ ~isValidColumn(col)
       THEN Fail(Call("createTicket", "Validation", p, NULL, args, agentId, <<>>))
       ELSE
         /\ LET ticket == dbCreateTicket(nextTicket, p, Trim(title.v),
                                         Coalesce(description, Str(<<>>)).v, col.v, agentId)
            IN /\ tickets' = Put(tickets, nextTicket, ticket)
               /\ nextTicket' = nextTicket + 1
               /\ IF failing = "activity"
                  THEN /\ activity' = activity
                       /\ events' = <<>>
                  ELSE /\ activity' = Append(activity,
                                  logActivity(agentId, nextTicket, "ticket_created"))
                       /\ events' = <<Event("TICKET_CREATED", p, ticket)>>
               /\ last' = Faulted(Call("createTicket", "Internal", p, nextTicket, args,
                                       agentId, <<>>), failing)
         /\ ops' = ops + 1
         /\ subs' = PublishAll(subs, events')
         /\ UNCHANGED <<projects, agents, comments, revisions, audit,
                        nextProject, nextAgent, now, server>>

\* updateTicket when the insert into the failing log table throws.
UpdateTicketLogFails(p, t, updates, actor, failing) ==
    /\ IF dbGetTicket(p, t) = NoTicket
       THEN Fail(Call("updateTicket", "NotFound", p, t, updates, actor, <<>>))
       ELSE IF UpdateInvalid(updates)
       THEN Fail(Call("updateTicket", "Validation", p, t, updates, actor, <<>>))
       ELSE
         LET upd == dbUpdateTicket(dbGetTicket(p, t), cleanUpdates(updates), actor)
         IN /\ tickets' = [tickets EXCEPT ![t] = upd.ticket]
            /\ revisions' = revisions \o upd.revs
            /\ IF failing = "activity"
               THEN /\ activity' = activity
                    /\ events' = <<>>
               ELSE /\ activity' = Append(activity, logActivity(actor, t, "ticket_updated"))
                    /\ events' = <<Event("TICKET_UPDATED", upd.ticket.projectId, upd.ticket)>>
            /\ last' = Faulted(Call("updateTicket", "Internal", p, t, updates, actor, <<>>),
                               failing)
            /\ ops' = ops + 1
            /\ subs' = PublishAll(subs, events')
            /\ UNCHANGED <<projects, agents, comments, audit,
                           nextProject, nextAgent, nextTicket, now, server>>

\* updateTicket when a statement of AgentboardDB.updateTicket throws: the
\* statements run one by one outside any transaction, first the inserts of
\* the revisions and then the UPDATE of the row.  written is the number of
\* revisions inserted before the throwing statement; when every revision is
\* written the throwing statement is the UPDATE.  Nothing catches the
\* exception: no activity, no event, no audit entry.
UpdateTicketStoreFails(p, t, updates, actor, written) ==
    /\ IF dbGetTicket(p, t) = NoTicket
       THEN Fail(Call("updateTicket", "NotFound", p, t, updates, actor, <<>>))
       ELSE IF UpdateInvalid(updates)
       THEN Fail(Call("updateTicket", "Validation", p, t, updates, actor, <<>>))
       ELSE
         LET upd == dbUpdateTicket(dbGetTicket(p, t), cleanUpdates(updates), actor)
         IN /\ written <= Len(upd.revs)
            /\ revisions' = revisions \o SubSeq(upd.revs, 1, written)
            /\ events' = <<>>
            /\ last' = Faulted(Call("updateTicket", "Internal", p, t, updates, actor, <<>>),
                               "store")
            /\ ops' = ops + 1
            /\ subs' = PublishAll(subs, events')
            /\ UNCHANGED <<projects, agents, tickets, comments, activity, audit,
                           nextProject, nextAgent, nextTicket, now, server>>

\* notifyTicketView
TicketViewed(p, t, viewer) ==
    IF viewer \in DOMAIN agents
    THEN <<Event("TICKET_VIEWED", p, [ticketId |-> t, agentId |-> viewer])>>
    ELSE <<>>

\* What a read of a ticket does once the ticket is found: nothing without a
\* viewer; with one, the view notification, the audit entry and the activity.
ReadTicketAlwaysLogs(op, p, t, viewer, ret, path, action) ==
    /\ last' = Call(op, "ok", p, t, NoUpdates, viewer, ret)
    /\ LET entry == logAudit(viewer, "READ", path)
           act == logActivity(viewer, t, action)
       IN /\ audit' = Append(audit, entry)
          /\ activity' = Append(activity, act)
          /\ events' = TicketViewed(p, t, viewer)
                       \o <<AuditEvent(entry), Event("ACTIVITY_ADDED", p, act)>>
    /\ ops' = ops + 1
    /\ subs' = PublishAll(subs, events')
    /\ UNCHANGED <<projects, agents, tickets, comments, revisions,
                   nextProject, nextAgent, nextTicket, now, server>>

ReadTicket(op, p, t, viewer, ret, path, action) ==
    /\ last' = Call(op, "ok", p, t, NoUpdates, viewer, ret)
    /\ IF viewer # NULL
       THEN LET entry == logAudit(viewer, "READ", path)
                act == logActivity(viewer, t, action)
            IN /\ audit' = Append(audit, entry)
               /\ activity' = Append(activity, act)
               /\ events' = TicketViewed(p, t, viewer)
                            \o <<AuditEvent(entry), Event("ACTIVITY_ADDED", p, act)>>
       ELSE /\ events' = <<>>
            /\ UNCHANGED <<audit, activity>>
    /\ ops' = ops + 1
    /\ subs' = PublishAll(subs, events')
    /\ UNCHANGED <<projects, agents, tickets, comments, revisions,
                   nextProject, nextAgent, nextTicket, now, server>>

GetTicket(p, t, viewer) ==
    /\ IF dbGetTicket(p, t) = NoTicket
       THEN Fail(Call("getTicket", "NotFound", p, t, NoUpdates, viewer, <<>>))
       ELSE ReadTicket("getTicket", p, t, viewer, dbGetTicket(p, t), "ticket", "ticket_read")

GetCommentsByTicket(p, t, viewer) ==
    /\ IF dbGetTicket(p, t) = NoTicket
       THEN Fail(Call("getCommentsByTicket", "NotFound", p, t, NoUpdates, viewer, <<>>))
       ELSE \E rows \in dbGetCommentsByTicket(t) :
               ReadTicket("getCommentsByTicket", p, t, viewer, rows,
                          "comments", "comments_read")

\* logActivity(agentId, null, action, details, projectId): an activity entry
\* of a project that concerns no ticket.
logProjectActivity(agentId, projectId, action) ==
    [agentId |-> agentId, ticketId |-> NULL, action |-> action, timestamp |-> now]

\* What a read of a project does once the project is found.
ReadProject(op, p, actor, ret, method, action) ==
    /\ last' = Call(op, "ok", p, NULL, NoUpdates, actor, ret)
    /\ IF actor # NULL
       THEN LET entry == logAudit(actor, method, "project")
                act == logProjectActivity(actor, p, action)
            IN /\ audit' = Append(audit, entry)
               /\ activity' = Append(activity, act)
               /\ events' = <<AuditEvent(entry), Event("ACTIVITY_ADDED", p, act)>>
       ELSE /\ events' = <<>>
            /\ UNCHANGED <<audit, activity>>
    /\ ops' = ops + 1
    /\ subs' = PublishAll(subs, events')
    /\ UNCHANGED <<projects, agents, tickets, comments, revisions,
                   nextProject, nextAgent, nextTicket, now, server>>

GetProject(id, actor) ==
    /\ IF id \notin DOMAIN projects
       THEN Fail(Call("getProject", "NotFound", id, NULL, NoUpdates, actor, <<>>))
       ELSE ReadProject("getProject", id, actor, projects[id], "READ", "project_read")

\* getTicketsByProject without list options.
GetTicketsByProject(p, actor) ==
    /\ IF p \notin DOMAIN projects
       THEN Fail(Call("getTicketsByProject", "NotFound", p, NULL, NoUpdates, actor, <<>>))
       ELSE \E rows \in dbGetTicketsByProject(p) :
               ReadProject("getTicketsByProject", p, actor, rows, "LIST", "tickets_listed")

\* A client of the bus: subscribe, pull with next(), cancel with return();
\* and some operation publishes a payload on an event.
BusCall(op, i) == Call(op, "ok", NULL, i, NoUpdates, NULL, <<>>)

Subscribe(event) ==
    /\ subs' = Append(subs, NewSubscription(event))
    /\ events' = <<>>
    /\ last' = BusCall("subscribe", Len(subs) + 1)
    /\ ops' = ops + 1
    /\ UNCHANGED <<store, now, server>>

\* asyncIterableIterator(event, filterFn) with the filter of a project.
SubscribeFiltered(event, p) ==
    /\ subs' = Append(subs, [NewSubscription(event) EXCEPT !.filter = p])
    /\ events' = <<>>
    /\ last' = BusCall("subscribe", Len(subs) + 1)
    /\ ops' = ops + 1
    /\ UNCHANGED <<store, now, server>>

FilteredNext(i) ==
    /\ subs' = [subs EXCEPT ![i] = filteredNext(subs[i])]
    /\ events' = <<>>
    /\ last' = BusCall("next", i)
    /\ ops' = ops + 1
    /\ UNCHANGED <<store, now, server>>

IteratorNext(i) ==
    /\ subs' = [subs EXCEPT ![i] = next(subs[i])]
    /\ events' = <<>>
    /\ last' = BusCall("next", i)
    /\ ops' = ops + 1
    /\ UNCHANGED <<store, now, server>>

IteratorReturn(i) ==
    /\ subs' = [subs EXCEPT ![i] = Resume(return(subs[i]))]
    /\ events' = <<>>
    /\ last' = BusCall("return", i)
    /\ ops' = ops + 1
    /\ UNCHANGED <<store, now, server>>

IteratorThrow(i) ==
    /\ subs' = [subs EXCEPT ![i] = Resume(throw(subs[i]))]
    /\ events' = <<>>
    /\ last' = BusCall("throw", i)
    /\ ops' = ops + 1
    /\ UNCHANGED <<store, now, server>>

\* The payload carries the number of the call that published it.
Publish(event, p) ==
    /\ events' = <<Event(event, p, [n |-> ops + 1])>>
    /\ subs' = PublishAll(subs, events')
    /\ last' = BusCall("publish", NULL)
    /\ ops' = ops + 1
    /\ UNCHANGED <<store, now, server>>

\* Time passes between two calls.
Tick ==
    /\ now < MaxTime
    /\ now' = now + 1
    /\ UNCHANGED <<store, ops, events, subs, last, server, request>>

\* ------------------------------------------------------------------------
\* Inputs
\* ------------------------------------------------------------------------
\* The ids a caller can name: every id issued so far and one that never was.
ProjectIds == 1 .. nextProject
AgentIds == 1 .. nextAgent
TicketIds == 1 .. nextTicket

NameInputs == {Str(<<"x">>), Str(<<" ", "x">>), Str(<<"y">>), Str(<<" ">>)}
ProjectNameInputs == {Str(<<"x">>), Str(<<>>)}
BodyInputs == {Str(<<"c", " ">>), Str(<<" ">>)}

Body(title, description, column) ==
    [title |-> title, description |-> description, column |-> column]

CreateInputs ==
    { Body(Str(<<"a">>), Undefined, Undefined),
      Body(Str(<<" ", "b", " ">>), Str(<<"d">>), Str(done)),
      Body(Str(<<"a">>), Undefined, Str(done)),
      Body(Str(<<" ">>), Undefined, Str(done)),
      Body(NotAString, Undefined, Undefined),
      Body(Str(<<"a">>), Undefined, Str(<<"archived">>)) }

UpdateInputs ==
    { Body(ti, de, co) : ti \in {Undefined, Str(<<"a">>), Str(<<" ", "b", " ">>)},
                         de \in {Undefined, Str(<<"d">>)},
                         co \in {Undefined, Str(done)} }
    \cup
    { Body(Str(<<" ">>), Str(<<"d">>), Str(done)),
      Body(NotAString, Undefined, Str(done)),
      Body(Str(<<"a">>), NotAString, Undefined),
      Body(Str(<<"a">>), Str(<<"d">>), Str(<<"archived">>)),
      Body(Undefined, Undefined, NotAString) }

MoveInputs == {Str(c) : c \in VALID_COLUMNS} \cup {Str(<<"archived">>), Undefined}

OwnProject(t) == tickets[t].projectId

\* A call made on the service itself, not through a route of the server.
Direct == request' = NoRequest

\* Every operation, called by admins, agents and humans.
More == ops < MaxOps /\ Direct

Next ==
    \/ More /\ \E name \in NameInputs : CreateAgent(name)
    \/ More /\ \E id \in AgentIds : DeleteAgent(id)
    \/ More /\ \E name \in ProjectNameInputs : CreateProject(name)
    \/ More /\ \E id \in ProjectIds : DeleteProject(id)
    \/ More /\ \E p \in ProjectIds, b \in CreateInputs, agentId \in Actors :
                  CreateTicket(p, b.title, b.description, b.column, agentId)
    \/ More /\ \E t \in DOMAIN tickets, u \in UpdateInputs, actor \in Actors :
                  UpdateTicket(OwnProject(t), t, u, actor)
    \/ More /\ \E p \in ProjectIds, t \in TicketIds :
                  UpdateTicket(p, t, Body(Str(<<"a">>), Undefined, Str(done)), NULL)
    \/ More /\ \E t \in DOMAIN tickets, c \in MoveInputs, actor \in Actors :
                  MoveTicket(OwnProject(t), t, c, actor)
    \/ More /\ \E p \in ProjectIds, t \in TicketIds : MoveTicket(p, t, Str(done), NULL)
    \/ More /\ \E p \in ProjectIds, t \in TicketIds : CloseTicket(p, t)
    \/ More /\ \E p \in ProjectIds, t \in TicketIds : OpenTicket(p, t)
    \/ More /\ \E p \in ProjectIds, t \in TicketIds, actor \in Actors :
                  DeleteTicket(p, t, actor)
    \/ More /\ \E p \in ProjectIds, t \in TicketIds, a \in DOMAIN agents,
                  body \in BodyInputs :
                  CreateComment(p, t, a, body)
    \/ More /\ \E p \in ProjectIds, t \in TicketIds, viewer \in Actors :
                  GetRevisionsByTicket(p, t, viewer)
    \/ Tick

Spec == Init /\ [][Next]_vars

\* The board of a human user: projects and tickets, no agent.
MoreBoard == ops < MaxBoardOps /\ Direct

NextBoard ==
    \/ MoreBoard /\ CreateProject(Str(<<"x">>))
    \/ MoreBoard /\ \E p \in DOMAIN projects, b \in CreateInputs :
                       CreateTicket(p, b.title, b.description, b.column, NULL)
    \/ MoreBoard /\ \E t \in DOMAIN tickets, u \in UpdateInputs :
                       UpdateTicket(OwnProject(t), t, u, NULL)
    \/ MoreBoard /\ \E t \in DOMAIN tickets, c \in MoveInputs :
                       MoveTicket(OwnProject(t), t, c, NULL)
    \/ MoreBoard /\ \E t \in DOMAIN tickets : CloseTicket(OwnProject(t), t)
    \/ MoreBoard /\ \E t \in DOMAIN tickets : OpenTicket(OwnProject(t), t)
    \/ MoreBoard /\ \E t \in DOMAIN tickets : DeleteTicket(OwnProject(t), t, NULL)
    \/ MoreBoard /\ \E t \in DOMAIN tickets :
                       GetRevisionsByTicket(OwnProject(t), t, NULL)
    \/ Tick

SpecBoard == Init /\ [][NextBoard]_vars

\* A team of agents and a human on a board: every operation, each with one
\* representative valid input, addressed to the tickets that exist, to a ticket
\* under another project's id and to ids that are gone or were never issued.
MoreTeam == ops < MaxTeamOps /\ Direct

Missing(p, t) == dbGetTicket(p, t) = NoTicket

TeamUpdate == Body(Str(<<"b">>), Str(<<"d">>), Undefined)

NextTeam ==
    \/ MoreTeam /\ CreateProject(Str(<<"x">>))
    \/ MoreTeam /\ \E name \in {Str(<<"x">>), Str(<<"y">>)} : CreateAgent(name)
    \/ MoreTeam /\ \E p \in DOMAIN projects, agentId \in Actors :
                      CreateTicket(p, Str(<<"a">>), Undefined, Undefined, agentId)
    \/ MoreTeam /\ \E p \in ProjectIds, t \in TicketIds, actor \in Actors :
                      (Missing(p, t) => actor = NULL) /\ UpdateTicket(p, t, TeamUpdate, actor)
    \/ MoreTeam /\ \E p \in ProjectIds, t \in TicketIds, actor \in Actors :
                      (Missing(p, t) => actor = NULL) /\ MoveTicket(p, t, Str(done), actor)
    \/ MoreTeam /\ \E p \in ProjectIds, t \in TicketIds : CloseTicket(p, t)
    \/ MoreTeam /\ \E p \in ProjectIds, t \in TicketIds : OpenTicket(p, t)
    \/ MoreTeam /\ \E p \in ProjectIds, t \in TicketIds : DeleteTicket(p, t, NULL)
    \/ MoreTeam /\ \E p \in ProjectIds, t \in TicketIds, a \in DOMAIN agents :
                      CreateComment(p, t, a, Str(<<"c">>))
    \/ MoreTeam /\ \E id \in DOMAIN projects : DeleteProject(id)
    \/ MoreTeam /\ \E id \in DOMAIN agents : DeleteAgent(id)
    \/ MoreTeam /\ \E p \in ProjectIds, t \in TicketIds, viewer \in Actors :
                      (Missing(p, t) => viewer = NULL) /\ GetTicket(p, t, viewer)
    \/ MoreTeam /\ \E t \in DOMAIN tickets, viewer \in Actors :
                      GetCommentsByTicket(OwnProject(t), t, viewer)
    \/ MoreTeam /\ \E t \in DOMAIN tickets, viewer \in Actors :
                      GetRevisionsByTicket(OwnProject(t), t, viewer)
    \/ MoreTeam /\ \E p \in DOMAIN projects, actor \in Actors : GetProject(p, actor)
    \/ MoreTeam /\ \E p \in DOMAIN projects, actor \in Actors :
                      GetTicketsByProject(p, actor)

SpecTeam == Init /\ [][NextTeam]_vars

\* Projects whose tickets gather comments and revisions and are then deleted.
MoreCascade == ops < MaxCascadeOps /\ Direct

NextCascade ==
    \/ MoreCascade /\ CreateProject(Str(<<"x">>))
    \/ MoreCascade /\ agents = <<>> /\ CreateAgent(Str(<<"x">>))
    \/ MoreCascade /\ \E p \in DOMAIN projects :
                         CreateTicket(p, Str(<<"a">>), Undefined, Undefined, NULL)
    \/ MoreCascade /\ \E t \in DOMAIN tickets : CloseTicket(OwnProject(t), t)
    \/ MoreCascade /\ \E t \in DOMAIN tickets, a \in DOMAIN agents :
                         CreateComment(OwnProject(t), t, a, Str(<<"c">>))
    \/ MoreCascade /\ \E id \in DOMAIN projects : DeleteProject(id)

SpecCascade == Init /\ [][NextCascade]_vars

\* A board on which writes to the log tables can fail.
MoreFault == ops < MaxFaultOps /\ Direct

NextFault ==
    \/ MoreFault /\ CreateProject(Str(<<"x">>))
    \/ MoreFault /\ \E p \in DOMAIN projects, b \in CreateInputs :
                       CreateTicket(p, b.title, b.description, b.column, NULL)
    \/ MoreFault /\ \E t \in DOMAIN tickets, u \in UpdateInputs :
                       UpdateTicket(OwnProject(t), t, u, NULL)
    \/ MoreFault /\ \E p \in DOMAIN projects, b \in CreateInputs, failing \in LogTables :
                       CreateTicketLogFails(p, b.title, b.description, b.column, NULL, failing)
    \/ MoreFault /\ \E t \in DOMAIN tickets, u \in UpdateInputs, failing \in LogTables :
                       UpdateTicketLogFails(OwnProject(t), t, u, NULL, failing)
    \/ MoreFault /\ \E t \in DOMAIN tickets, u \in UpdateInputs, written \in 0 .. 3 :
                       UpdateTicketStoreFails(OwnProject(t), t, u, NULL, written)

SpecFault == Init /\ [][NextFault]_vars

\* Clients of the event bus.
MoreBus == ops < MaxBusOps /\ Direct

BusEvents == {"TICKET_UPDATED", "TICKET_MOVED"}

BusProjects == {1, 2}

NextBus ==
    \/ MoreBus /\ \E event \in BusEvents : Subscribe(event)
    \/ MoreBus /\ SubscribeFiltered("TICKET_UPDATED", 1)
    \/ MoreBus /\ \E i \in DOMAIN subs : subs[i].filter = NULL /\ IteratorNext(i)
    \/ MoreBus /\ \E i \in DOMAIN subs : subs[i].filter # NULL /\ FilteredNext(i)
    \/ MoreBus /\ \E i \in DOMAIN subs : IteratorReturn(i)
    \/ MoreBus /\ \E event \in BusEvents, p \in BusProjects : Publish(event, p)

SpecBus == Init /\ [][NextBus]_vars

\* A board whose subscribers watch the ticket events, with and without
\* failing store writes.
MorePublish == ops < MaxPublishOps /\ Direct

PublishUpdates ==
    {Body(Str(<<"b">>), Undefined, Undefined), Body(Undefined, Undefined, Str(done)),
     Body(Str(<<" ">>), Undefined, Undefined)}

NextPublish ==
    \/ MorePublish /\ projects = <<>> /\ CreateProject(Str(<<"x">>))
    \/ MorePublish /\ \E p \in ProjectIds, title \in {Str(<<"a">>), Str(<<" ">>)} :
                         CreateTicket(p, title, Undefined, Undefined, NULL)
    \/ MorePublish /\ \E t \in DOMAIN tickets, u \in PublishUpdates :
                         UpdateTicket(OwnProject(t), t, u, NULL)
    \/ MorePublish /\ \E t \in DOMAIN tickets, c \in {Str(ready), Str(<<"archived">>)} :
                         MoveTicket(OwnProject(t), t, c, NULL)
    \/ MorePublish /\ \E t \in DOMAIN tickets : CloseTicket(OwnProject(t), t)
    \/ MorePublish /\ \E p \in ProjectIds, t \in TicketIds : DeleteTicket(p, t, NULL)
    \/ MorePublish /\ \E p \in DOMAIN projects, failing \in LogTables :
                         CreateTicketLogFails(p, Str(<<"a">>), Undefined, Undefined, NULL,
                                              failing)
    \/ MorePublish /\ \E t \in DOMAIN tickets, u \in PublishUpdates, failing \in LogTables :
                         UpdateTicketLogFails(OwnProject(t), t, u, NULL, failing)
    \/ MorePublish /\ \E t \in DOMAIN tickets, u \in PublishUpdates, written \in 0 .. 1 :
                         UpdateTicketStoreFails(OwnProject(t), t, u, NULL, written)

SpecPublish == Init /\ [][NextPublish]_vars

\* Clients of the event bus that end a subscription by return() or by throw().
MoreThrow == ops < MaxThrowOps /\ Direct

NextThrow ==
    \/ MoreThrow /\ \E event \in BusEvents : Subscribe(event)
    \/ MoreThrow /\ \E i \in DOMAIN subs : IteratorNext(i)
    \/ MoreThrow /\ \E i \in DOMAIN subs : IteratorReturn(i)
    \/ MoreThrow /\ \E i \in DOMAIN subs : IteratorThrow(i)
    \/ MoreThrow /\ \E event \in BusEvents : Publish(event, 1)

SpecThrow == Init /\ [][NextThrow]_vars

\* ------------------------------------------------------------------------
\* Listing the tickets of a project by pages
\* ------------------------------------------------------------------------
\* Filter and pagination options: the page number is 1-based and 1 by
\* default, 50 items are on a page by default.
ListOptions(column, page, per_page) ==
    [column |-> column, page |-> page, per_page |-> per_page]

DefaultPage == 1

DefaultPerPage == 50

Ceil(a, b) == (a + b - 1) \div b

PaginateFromPageZero(rows, page, perPage) ==
    [data |-> SubSeq(rows, page * perPage + 1,
                     IF (page + 1) * perPage <= Len(rows) THEN (page + 1) * perPage
                     ELSE Len(rows)),
     total |-> Len(rows), page |-> page, per_page |-> perPage,
     total_pages |-> Ceil(Len(rows), perPage)]

\* The page of the rows with its number, and the counts of the whole.
Paginate(rows, page, perPage) ==
    [data |-> SubSeq(rows, (page - 1) * perPage + 1,
                     IF page * perPage <= Len(rows) THEN page * perPage ELSE Len(rows)),
     total |-> Len(rows), page |-> page, per_page |-> perPage,
     total_pages |-> Ceil(Len(rows), perPage)]

\* The tickets of the project, of one column if one is given, in the order of
\* the list, by pages.
dbGetTicketsByProjectPaged(p, options) ==
    LET ids == {t \in DOMAIN tickets :
                   /\ tickets[t].projectId = p
                   /\ IsString(options.column) => tickets[t].column = options.column.v}
        page == IF options.page = NULL THEN DefaultPage ELSE options.page
        perPage == IF options.per_page = NULL THEN DefaultPerPage ELSE options.per_page
    IN {Paginate(rows, page, perPage) : rows \in OrderByColumnPosition(ids)}

\* getTicketsByProject with list options.
GetTicketsByProjectPaged(p, actor, options) ==
    LET call(result, ret) ==
            Call("getTicketsByProject", result, p, NULL,
                 [NoUpdates EXCEPT !.column = options.column], actor, ret)
    IN IF p \notin DOMAIN projects
       THEN Fail(call("NotFound", <<>>))
       ELSE IF IsString(options.column) /\ ~isValidColumn(options.column)
       THEN Fail(call("Validation", <<>>))
       ELSE \E result \in dbGetTicketsByProjectPaged(p, options) :
               /\ last' = call("ok", result)
               /\ IF actor # NULL
                  THEN LET entry == logAudit(actor, "LIST", "project")
                           act == logProjectActivity(actor, p, "tickets_listed")
                       IN /\ audit' = Append(audit, entry)
                          /\ activity' = Append(activity, act)
                          /\ events' = <<AuditEvent(entry), Event("ACTIVITY_ADDED", p, act)>>
                  ELSE /\ events' = <<>>
                       /\ UNCHANGED <<audit, activity>>
               /\ ops' = ops + 1
               /\ subs' = PublishAll(subs, events')
               /\ UNCHANGED <<projects, agents, tickets, comments, revisions,
                              nextProject, nextAgent, nextTicket, now, server>>

PageInputs ==
    {ListOptions(column, page, per_page) :
        column \in {Undefined, Str(done)}, page \in {NULL} \cup (1 .. MaxPage),
        per_page \in {NULL} \cup (1 .. MaxPerPage)}
    \cup {ListOptions(Str(<<"archived">>), NULL, NULL)}

\* A project whose tickets are listed by pages.
MorePages == ops < MaxPagesOps /\ Direct

NextPages ==
    \/ MorePages /\ projects = <<>> /\ CreateProject(Str(<<"x">>))
    \/ MorePages /\ \E p \in DOMAIN projects, column \in {Undefined, Str(done)} :
                       CreateTicket(p, Str(<<"a">>), Undefined, column, NULL)
    \/ MorePages /\ \E p \in ProjectIds, actor \in Actors, options \in PageInputs :
                       GetTicketsByProjectPaged(p, actor, options)

SpecPages == Init /\ [][NextPages]_vars

\* ------------------------------------------------------------------------
\* Server: credentials, routes and the MCP endpoint
\* ------------------------------------------------------------------------
\* A key is a string of one token, the uuid it was generated from; a longer
\* string starts with a key and goes on.
NoAgent == [id |-> NULL]

getAgentByApiKeyPrefix(apiKey) ==
    LET found == {a \in DOMAIN agents : Len(apiKey) > 0 /\ agents[a].apiKey = apiKey[1]}
    IN IF found = {} THEN NoAgent ELSE agents[CHOOSE a \in found : TRUE]

\* SELECT * FROM agents WHERE api_key = ?
getAgentByApiKey(apiKey) ==
    LET found == {a \in DOMAIN agents : <<agents[a].apiKey>> = apiKey}
    IN IF found = {} THEN NoAgent ELSE agents[CHOOSE a \in found : TRUE]

\* The exchange that starts: what is sent, and what the server holds then.
Exchange(route, header) ==
    [NoRequest EXCEPT !.route = route, !.header = header,
                      !.settingsBefore = settings, !.sessionsBefore = mcpSessions,
                      !.persistedBefore = mcpStore]

handleServiceError(result) ==
    CASE result = "NotFound" -> 404
      [] result = "Validation" -> 400
      [] result = "Duplicate" -> 409
      [] OTHER -> 500

\* The status the handler of a route answers with.
Answered(result, success) == IF result = "ok" THEN success ELSE handleServiceError(result)

\* A middleware answers by itself: next() is not called.
Reject(exchange, status) ==
    /\ request' = [exchange EXCEPT !.status = status]
    /\ Fail(Call(exchange.route, "Rejected", NULL, NULL, NoUpdates, NULL, <<>>))

\* The middleware of a route for agents: the status it answers with, or 0
\* and the agent it calls next() for.
createAuthMiddleware(apiKey) ==
    LET agent == IF IsString(apiKey) THEN getAgentByApiKey(apiKey.v) ELSE NoAgent
    IN IF ~IsString(apiKey) \/ Len(apiKey.v) = 0
       THEN [status |-> 401, agentId |-> NULL]
       ELSE IF agent.id = NULL
       THEN [status |-> 403, agentId |-> NULL]
       ELSE [status |-> 0, agentId |-> agent.id]

\* The exchange once the handler has run for the agent.
Handled(exchange, agentId, success) ==
    [exchange EXCEPT !.agentId = agentId, !.ran = TRUE,
                     !.status = Answered(last'.result, success)]

\* POST /api/projects/:id/tickets
PostTicket(apiKey, p, b) ==
    LET exchange == Exchange("POST /tickets", apiKey)
        auth == createAuthMiddleware(apiKey)
    IN IF auth.status # 0
       THEN Reject(exchange, auth.status)
       ELSE /\ CreateTicket(p, b.title,
                            IF IsString(b.description) THEN b.description ELSE Undefined,
                            b.column, auth.agentId)
            /\ request' = Handled(exchange, auth.agentId, 201)

\* PATCH /api/projects/:id/tickets/:ticketId
PatchTicket(apiKey, p, t, u) ==
    LET exchange == Exchange("PATCH /tickets", apiKey)
        auth == createAuthMiddleware(apiKey)
    IN IF auth.status # 0
       THEN Reject(exchange, auth.status)
       ELSE /\ UpdateTicket(p, t, u, auth.agentId)
            /\ request' = Handled(exchange, auth.agentId, 200)

\* DELETE /api/projects/:id/tickets/:ticketId: the service is called without
\* an actor.
DeleteTicketRoute(apiKey, p, t) ==
    LET exchange == Exchange("DELETE /tickets", apiKey)
        auth == createAuthMiddleware(apiKey)
    IN IF auth.status # 0
       THEN Reject(exchange, auth.status)
       ELSE /\ DeleteTicket(p, t, NULL)
            /\ request' = Handled(exchange, auth.agentId, 204)

\* POST /api/projects/:id/tickets/:ticketId/comments
PostComment(apiKey, p, t, body) ==
    LET exchange == Exchange("POST /comments", apiKey)
        auth == createAuthMiddleware(apiKey)
    IN IF auth.status # 0
       THEN Reject(exchange, auth.status)
       ELSE /\ CreateComment(p, t, auth.agentId, body)
            /\ request' = Handled(exchange, auth.agentId, 201)

getOrCreateAdminKeyAlwaysNew(stored) ==
    [key |-> Str(<<nextKey>>), nextKey |-> nextKey + 1]

\* The admin key stored, or a new one that is then stored: the key to return
\* and to hold in the settings, and the next fresh uuid.
getOrCreateAdminKey(stored) ==
    IF stored.t # "undefined"
    THEN [key |-> stored, nextKey |-> nextKey]
    ELSE [key |-> Str(<<nextKey>>), nextKey |-> nextKey + 1]

RotateAdminKeyUnsaved ==
    /\ nextKey' = nextKey + 1
    /\ events' = <<>>
    /\ last' = Call("rotateAdminKey", "ok", NULL, NULL, NoUpdates, NULL, Str(<<nextKey>>))
    /\ ops' = ops + 1
    /\ subs' = PublishAll(subs, events')
    /\ UNCHANGED <<store, now, settings, mcpSessions, mcpStore, nextSession,
                   ADMIN_API_KEY, sessions>>

RotateAdminKey ==
    /\ settings' = Str(<<nextKey>>)
    /\ nextKey' = nextKey + 1
    /\ events' = <<>>
    /\ last' = Call("rotateAdminKey", "ok", NULL, NULL, NoUpdates, NULL, Str(<<nextKey>>))
    /\ ops' = ops + 1
    /\ subs' = PublishAll(subs, events')
    /\ UNCHANGED <<store, now, mcpSessions, mcpStore, nextSession, ADMIN_API_KEY, sessions>>

\* The middleware of an admin route, made from the service: the key expected
\* is read (or generated) at every request. No key that is presented is one
\* that is only then generated, so the handler runs on the settings as read.
createAdminAuthMiddleware(route, key, Handler, success) ==
    LET exchange == Exchange(route, key)
        expected == getOrCreateAdminKey(settings)
    IN IF ~IsString(key) \/ Len(key.v) = 0
       THEN Reject(exchange, 401)
       ELSE IF key # expected.key
       THEN /\ request' = [exchange EXCEPT !.status = 403]
            /\ settings' = expected.key
            /\ nextKey' = expected.nextKey
            /\ last' = Call(route, "Rejected", NULL, NULL, NoUpdates, NULL, <<>>)
            /\ events' = <<>>
            /\ ops' = ops + 1
            /\ subs' = PublishAll(subs, events')
            /\ UNCHANGED <<store, now, mcpSessions, mcpStore, nextSession,
                           ADMIN_API_KEY, sessions>>
       ELSE /\ Handler
            /\ request' = [exchange EXCEPT !.ran = TRUE,
                                           !.status = Answered(last'.result, success),
                                           !.key = IF route = "POST /admin-key/rotate"
                                                   THEN last'.ret ELSE Undefined]

\* POST /api/agents
PostAgent(key, name) == createAdminAuthMiddleware("POST /agents", key, CreateAgent(name), 201)

\* DELETE /api/agents/:id
DeleteAgentRoute(key, id) ==
    createAdminAuthMiddleware("DELETE /agents", key, DeleteAgent(id), 204)

\* POST /api/agents/admin-key/rotate
RotateRoute(key) ==
    createAdminAuthMiddleware("POST /admin-key/rotate", key, RotateAdminKey, 200)

\* POST /api/auth/login on a running server: the key sent is compared with
\* the key the process read when it started; a login makes a session token.
Login(key) ==
    LET accepted == IsString(key) /\ key = ADMIN_API_KEY
    IN /\ ADMIN_API_KEY # Undefined
       /\ request' = [Exchange("POST /auth/login", key) EXCEPT
                         !.ran = TRUE, !.status = IF accepted THEN 200 ELSE 401]
       /\ sessions' = IF accepted THEN sessions \cup {Cardinality(sessions) + 1}
                      ELSE sessions
       /\ events' = <<>>
       /\ last' = Call("login", IF accepted THEN "ok" ELSE "Rejected", NULL, NULL,
                       NoUpdates, NULL, <<>>)
       /\ ops' = ops + 1
       /\ subs' = PublishAll(subs, events')
       /\ UNCHANGED <<store, now, settings, nextKey, mcpSessions, mcpStore, nextSession,
                      ADMIN_API_KEY>>

\* The table of the persisted MCP sessions: a session is recorded with its
\* agent, looked up, deleted, and deleted when it is old; which sessions are
\* old then is not known here.
createMcpSession(sid, agentId) == Put(mcpStore, sid, agentId)

getMcpSessionAgentId(sid) == IF sid \in DOMAIN mcpStore THEN mcpStore[sid] ELSE NULL

deleteMcpSessionKeepsRecord(sid) == mcpStore

deleteMcpSession(sid) == Remove(mcpStore, {sid})

pruneOldMcpSessions(pruned) == Remove(mcpStore, pruned)

\* The server process starts, for the first time or again on the same store:
\* old MCP sessions are pruned, a key supplied by the operator is stored, and
\* the admin key is read or generated and kept by the process. What the
\* process before it held in memory is gone.
Start(envKey, pruned) ==
    LET supplied == IF IsString(envKey) /\ Len(envKey.v) > 0 THEN envKey ELSE settings
        admin == getOrCreateAdminKey(supplied)
    IN /\ settings' = admin.key
       /\ nextKey' = admin.nextKey
       /\ mcpSessions' = <<>>
       /\ mcpStore' = pruneOldMcpSessions(pruned)
       /\ subs' = <<>>
       /\ request' = [Exchange("start", envKey) EXCEPT !.key = admin.key]
       /\ events' = <<>>
       /\ last' = Call("start", "ok", NULL, NULL, NoUpdates, NULL, admin.key)
       /\ ops' = ops + 1
       /\ ADMIN_API_KEY' = admin.key
       /\ UNCHANGED <<store, now, nextSession, sessions>>

authenticateMcpRequestOneCode(apiKey) ==
    LET agent == IF IsString(apiKey) THEN getAgentByApiKey(apiKey.v) ELSE NoAgent
    IN IF agent.id = NULL
       THEN [status |-> 403, code |-> -32002, agent |-> NoAgent]
       ELSE [status |-> 0, code |-> 0, agent |-> agent]

\* Validate the X-Api-Key header: the agent, or the error to answer with.
authenticateMcpRequest(apiKey) ==
    LET agent == IF IsString(apiKey) THEN getAgentByApiKey(apiKey.v) ELSE NoAgent
    IN IF ~IsString(apiKey) \/ Len(apiKey.v) = 0
       THEN [status |-> 401, code |-> -32001, agent |-> NoAgent]
       ELSE IF agent.id = NULL
       THEN [status |-> 403, code |-> -32002, agent |-> NoAgent]
       ELSE [status |-> 0, code |-> 0, agent |-> agent]

\* The endpoint answers with a JSON-RPC error; the persisted sessions are as
\* given.
mcpError(exchange, status, code, persisted) ==
    /\ request' = [exchange EXCEPT !.status = status, !.code = code]
    /\ mcpStore' = persisted
    /\ events' = <<>>
    /\ last' = Call(exchange.route, "Rejected", NULL, NULL, NoUpdates, NULL, <<>>)
    /\ ops' = ops + 1
    /\ subs' = PublishAll(subs, events')
    /\ UNCHANGED <<store, now, settings, nextKey, mcpSessions, nextSession,
                   ADMIN_API_KEY, sessions>>

\* The catch block: something threw, and the error is answered unless the
\* transport has begun to answer.
Thrown(exchange, fault, headersSent) ==
    mcpError([exchange EXCEPT !.fault = fault, !.headersSent = headersSent],
             IF headersSent THEN 200 ELSE 500, IF headersSent THEN 0 ELSE -32603,
             mcpStore)

\* A new transport handles the initialize request: the session is put in
\* memory and persisted when it is initialized. The transport may throw
\* before that, and the store when the session is persisted.
createMcpTransport(exchange, agentId, fault, headersSent) ==
    /\ request' = [exchange EXCEPT !.forwarded = TRUE, !.agentId = agentId,
                     !.fault = fault, !.headersSent = headersSent,
                     !.status = IF fault = "none" \/ headersSent THEN 200 ELSE 500,
                     !.code = IF fault = "none" \/ headersSent THEN 0 ELSE -32603]
    /\ mcpSessions' = IF fault = "transport" THEN mcpSessions
                      ELSE Put(mcpSessions, nextSession, agentId)
    /\ mcpStore' = IF fault = "none" THEN createMcpSession(nextSession, agentId)
                   ELSE mcpStore
    /\ nextSession' = nextSession + 1
    /\ events' = <<>>
    /\ last' = Call("initialize", "ok", NULL, NULL, NoUpdates, agentId, <<>>)
    /\ ops' = ops + 1
    /\ subs' = PublishAll(subs, events')
    /\ UNCHANGED <<store, now, settings, nextKey, ADMIN_API_KEY, sessions>>

\* The transport of the session handles the request: a tool is called as the
\* agent of the session.
handleRequest(exchange, agentId, tool, p) ==
    /\ IF tool = "create_ticket"
       THEN CreateTicket(p, Str(<<"a">>), Undefined, Undefined, agentId)
       ELSE Fail(Call(tool, "ok", NULL, NULL, NoUpdates, agentId, <<>>))
    /\ request' = [exchange EXCEPT !.forwarded = TRUE, !.agentId = agentId, !.status = 200]

\* POST /mcp
McpPost(accept, apiKey, session, initialize, tool, p, fault, headersSent) ==
    LET exchange == [Exchange("POST /mcp", apiKey) EXCEPT
                        !.accept = accept, !.session = session,
                        !.initialize = initialize]
        auth == authenticateMcpRequest(apiKey)
        agent == auth.agent
    IN IF ~accept
       THEN mcpError(exchange, 406, -32000, mcpStore)
       ELSE IF auth.status # 0
       THEN mcpError(exchange, auth.status, auth.code, mcpStore)
       ELSE IF session # NULL /\ session \in DOMAIN mcpSessions
       THEN IF mcpSessions[session] # agent.id
            THEN mcpError(exchange, 403, -32002, mcpStore)
            ELSE IF fault = "store"
            THEN Thrown(exchange, fault, FALSE)
            ELSE IF fault = "transport"
            THEN Thrown([exchange EXCEPT !.forwarded = TRUE, !.agentId = agent.id],
                        fault, headersSent)
            ELSE handleRequest(exchange, agent.id, tool, p)
       ELSE IF initialize
       THEN createMcpTransport(exchange, agent.id, fault, headersSent)
       ELSE IF session # NULL
       THEN IF fault = "store"
            THEN Thrown(exchange, fault, FALSE)
            ELSE IF getMcpSessionAgentId(session) # NULL
            THEN IF getMcpSessionAgentId(session) # agent.id
                 THEN mcpError(exchange, 403, -32002, mcpStore)
                 ELSE mcpError(exchange, 404, -32004, deleteMcpSession(session))
            ELSE mcpError(exchange, 404, -32003, mcpStore)
       ELSE mcpError(exchange, 400, -32000, mcpStore)

\* GET /mcp: the stream of the session's notifications.
McpGet(apiKey, session) ==
    LET exchange == [Exchange("GET /mcp", apiKey) EXCEPT !.session = session]
        auth == authenticateMcpRequest(apiKey)
    IN IF auth.status # 0
       THEN mcpError(exchange, auth.status, auth.code, mcpStore)
       ELSE IF session = NULL \/ session \notin DOMAIN mcpSessions
       THEN mcpError(exchange, 400, -32000, mcpStore)
       ELSE IF mcpSessions[session] # auth.agent.id
       THEN mcpError(exchange, 403, -32002, mcpStore)
       ELSE handleRequest(exchange, auth.agent.id, "stream", NULL)

\* The transport handles a DELETE: it closes, and its onclose takes the
\* session out of the memory and out of the store.
closeSession(exchange, agentId) ==
    /\ request' = [exchange EXCEPT !.forwarded = TRUE, !.agentId = agentId, !.status = 200]
    /\ mcpSessions' = Remove(mcpSessions, {exchange.session})
    /\ mcpStore' = deleteMcpSession(exchange.session)
    /\ events' = <<>>
    /\ last' = Call("terminate", "ok", NULL, NULL, NoUpdates, agentId, <<>>)
    /\ ops' = ops + 1
    /\ subs' = PublishAll(subs, events')
    /\ UNCHANGED <<store, now, settings, nextKey, nextSession, ADMIN_API_KEY, sessions>>

McpDeleteByAnyAgent(apiKey, session) ==
    LET exchange == [Exchange("DELETE /mcp", apiKey) EXCEPT !.session = session]
        auth == authenticateMcpRequest(apiKey)
    IN IF auth.status # 0
       THEN mcpError(exchange, auth.status, auth.code, mcpStore)
       ELSE IF session = NULL \/ session \notin DOMAIN mcpSessions
       THEN mcpError(exchange, 400, -32000,
                     IF session # NULL THEN deleteMcpSession(session) ELSE mcpStore)
       ELSE closeSession(exchange, auth.agent.id)

\* DELETE /mcp: the session is terminated.
McpDelete(apiKey, session) ==
    LET exchange == [Exchange("DELETE /mcp", apiKey) EXCEPT !.session = session]
        auth == authenticateMcpRequest(apiKey)
    IN IF auth.status # 0
       THEN mcpError(exchange, auth.status, auth.code, mcpStore)
       ELSE IF session = NULL \/ session \notin DOMAIN mcpSessions
       THEN mcpError(exchange, 400, -32000,
                     IF session # NULL THEN deleteMcpSession(session) ELSE mcpStore)
       ELSE IF mcpSessions[session] # auth.agent.id
       THEN mcpError(exchange, 403, -32002, mcpStore)
       ELSE closeSession(exchange, auth.agent.id)

\* Inputs of the server.
Longer(k) == <<k, k>>

ApiKeyHeaders ==
    {Undefined, Str(<<>>)} \cup {Str(<<k>>) : k \in AgentIds}
    \cup {Str(Longer(k)) : k \in DOMAIN agents}

McpKeyHeaders == {Undefined, Str(<<>>)} \cup {Str(<<k>>) : k \in AgentIds}

\* Keys an operator supplies; none is a key the server generates.
EnvKeys == {Str(<<8>>), Str(<<9>>)}

IssuedKeys == {Str(<<k>>) : k \in 1 .. nextKey - 1}

AdminKeyHeaders == {Undefined, Str(<<>>), Str(<<0>>)} \cup IssuedKeys \cup EnvKeys

SessionIds == 1 .. nextSession

Faults == {"none", "store", "transport"}

\* Agents at the routes of the board and at the MCP endpoint.
MoreGate == ops < MaxGateOps

NextGate ==
    \/ MoreGate /\ Direct /\ projects = <<>> /\ CreateProject(Str(<<"x">>))
    \/ MoreGate /\ Direct /\ \E name \in {Str(<<"x">>), Str(<<"y">>)} : CreateAgent(name)
    \/ MoreGate /\ Direct /\ \E id \in DOMAIN agents : DeleteAgent(id)
    \/ MoreGate /\ \E apiKey \in ApiKeyHeaders, p \in DOMAIN projects :
                      PostTicket(apiKey, p, Body(Str(<<"a">>), Undefined, Undefined))
    \/ MoreGate /\ \E apiKey \in ApiKeyHeaders, t \in DOMAIN tickets :
                      PatchTicket(apiKey, OwnProject(t), t, TeamUpdate)
    \/ MoreGate /\ \E apiKey \in ApiKeyHeaders, t \in DOMAIN tickets :
                      DeleteTicketRoute(apiKey, OwnProject(t), t)
    \/ MoreGate /\ \E apiKey \in ApiKeyHeaders, t \in DOMAIN tickets :
                      PostComment(apiKey, OwnProject(t), t, Str(<<"c">>))

SpecGate == Init /\ [][NextGate]_vars

\* Agents at the MCP endpoint of a server that is restarted now and then. A
\* request that is refused for its Accept header carries nothing else, and a
\* tool is called only in a request that names a session.
MoreMcp == ops < MaxMcpOps

NextMcp ==
    \/ MoreMcp /\ Direct /\ projects = <<>> /\ CreateProject(Str(<<"x">>))
    \/ MoreMcp /\ Direct /\ \E name \in {Str(<<"x">>), Str(<<"y">>)} :
                                ~NameTaken(name.v) /\ CreateAgent(name)
    \/ MoreMcp /\ \E apiKey \in McpKeyHeaders, session \in {NULL} \cup SessionIds,
                     accept \in BOOLEAN, initialize \in BOOLEAN,
                     tool \in {"create_ticket", "whoami"},
                     fault \in Faults, headersSent \in BOOLEAN :
                     /\ headersSent => fault = "transport"
                     /\ ~accept => session = NULL /\ ~initialize /\ fault = "none"
                     /\ tool = "create_ticket" => session # NULL /\ ~initialize
                     /\ McpPost(accept, apiKey, session, initialize, tool, 1, fault,
                                headersSent)
    \/ MoreMcp /\ \E pruned \in SUBSET DOMAIN mcpStore : Start(Undefined, pruned)

SpecMcp == Init /\ [][NextMcp]_vars

\* Two agents and their MCP sessions: requests of every method under every
\* key and every session id, on a server that is restarted now and then.
MoreSession == ops < MaxSessionOps

NextSession ==
    \/ MoreSession /\ Direct /\ \E name \in {Str(<<"x">>), Str(<<"y">>)} :
                                    ~NameTaken(name.v) /\ CreateAgent(name)
    \/ MoreSession /\ \E apiKey \in McpKeyHeaders, session \in {NULL} \cup SessionIds,
                         accept \in BOOLEAN, initialize \in BOOLEAN :
                         McpPost(accept, apiKey, session, initialize, "whoami", NULL,
                                 "none", FALSE)
    \/ MoreSession /\ \E apiKey \in McpKeyHeaders, session \in {NULL} \cup SessionIds :
                         McpGet(apiKey, session)
    \/ MoreSession /\ \E apiKey \in McpKeyHeaders, session \in {NULL} \cup SessionIds :
                         McpDelete(apiKey, session)
    \/ MoreSession /\ Start(Undefined, {})

SpecSession == Init /\ [][NextSession]_vars

\* Admins and the operator of the server.
MoreAdmin == ops < MaxAdminOps

NextAdmin ==
    \/ MoreAdmin /\ \E envKey \in {Undefined, Str(<<>>)} \cup EnvKeys : Start(envKey, {})
    \/ MoreAdmin /\ \E key \in AdminKeyHeaders : RotateRoute(key)
    \/ MoreAdmin /\ \E key \in AdminKeyHeaders : PostAgent(key, Str(<<"x">>))
    \/ MoreAdmin /\ \E key \in AdminKeyHeaders, id \in AgentIds : DeleteAgentRoute(key, id)
    \/ MoreAdmin /\ Direct /\ RotateAdminKey

SpecAdmin == Init /\ [][NextAdmin]_vars

\* An admin who rotates the key of a running server and logs in to the UI.
MoreLogin == ops < MaxLoginOps

Running == ADMIN_API_KEY # Undefined

NextLogin ==
    \/ MoreLogin /\ \E envKey \in {Undefined} \cup EnvKeys : Start(envKey, {})
    \/ MoreLogin /\ Running /\ \E key \in AdminKeyHeaders : RotateRoute(key)
    \/ MoreLogin /\ Running /\ Direct /\ RotateAdminKey
    \/ MoreLogin /\ \E key \in AdminKeyHeaders : Login(key)

SpecLogin == Init /\ [][NextLogin]_vars

\* ------------------------------------------------------------------------
\* Properties
\* ------------------------------------------------------------------------
\* The last call addressed a ticket that existed under the project it named.
OnExistingTicket(op) ==
    /\ last.op = op
    /\ last.before # NoTicket
    /\ last.before.projectId = last.projectId

\* The tickets of project p that were in column col before the last call.
InColumnBefore(p, col) ==
    {x \in DOMAIN last.ticketsBefore :
        /\ last.ticketsBefore[x].projectId = p
        /\ last.ticketsBefore[x].column = col}

\* pos is 0 when S is empty and one more than the highest position in S otherwise.
AppendsTo(pos, S) ==
    /\ S = {} => pos = 0
    /\ S # {} => \E x \in S : pos = last.ticketsBefore[x].position + 1
    /\ \A x \in S : last.ticketsBefore[x].position < pos

\* The revisions the last call added: the table is the old table followed by them.
AddedRevisions == SubSeq(revisions, Len(last.revsBefore) + 1, Len(revisions))

OnlyAppended ==
    /\ Len(revisions) >= Len(last.revsBefore)
    /\ SubSeq(revisions, 1, Len(last.revsBefore)) = last.revsBefore

FieldOf(ticket, f) ==
    CASE f = "title" -> ticket.title
      [] f = "description" -> ticket.description
      [] f = "column" -> ticket.column

Fields == {"title", "description", "column"}

\* C1: moveTicket of a ticket in column c1 to a valid column c2 # c1 succeeds,
\* adds exactly one revision for the ticket (field "column", c1 -> c2), sets
\* the ticket's column to c2 and its position to 1 + the highest position of
\* the project's tickets that were in c2 before the move (0 when there was none).
C1_MoveAppendsAndLogsOneRevision ==
    (/\ OnExistingTicket("moveTicket")
     /\ isValidColumn(last.updates.column)
     /\ last.updates.column.v # last.before.column)
    => LET t == last.ticketId
           c1 == last.before.column
           c2 == last.updates.column.v
       IN /\ last.result = "ok"
          /\ OnlyAppended
          /\ Len(AddedRevisions) = 1
          /\ AddedRevisions[1].ticketId = t
          /\ AddedRevisions[1].field = "column"
          /\ AddedRevisions[1].oldValue = c1
          /\ AddedRevisions[1].newValue = c2
          /\ tickets[t].column = c2
          /\ AppendsTo(tickets[t].position, InColumnBefore(last.projectId, c2))

\* A move into a column that already held a ticket.
C1_Witness ==
    /\ OnExistingTicket("moveTicket")
    /\ last.result = "ok"
    /\ last.ticketId \in DOMAIN tickets
    /\ tickets[last.ticketId].column # last.before.column
    /\ tickets[last.ticketId].position >= 1

\* The body of an updateTicket call passes the field checks.
ValidUpdates(u) ==
    /\ u.title = Undefined \/ (IsString(u.title) /\ Trim(u.title.v) # <<>>)
    /\ u.description = Undefined \/ IsString(u.description)
    /\ u.column = Undefined \/ (IsString(u.column) /\ u.column.v \in VALID_COLUMNS)

\* No supplied field differs from the ticket's value (the title once trimmed).
NothingDiffers(u, ticket) ==
    /\ u.title # Undefined => Trim(u.title.v) = ticket.title
    /\ u.description # Undefined => u.description.v = ticket.description
    /\ u.column # Undefined => u.column.v = ticket.column

\* C2: an updateTicket call in which no supplied field differs from the
\* ticket's current value (the title compared after trimming) creates no
\* revision, whichever fields are supplied and whatever the ticket's history.
C2_NoRevisionWhenNothingDiffers ==
    (/\ OnExistingTicket("updateTicket")
     /\ ValidUpdates(last.updates)
     /\ NothingDiffers(last.updates, last.before))
    => /\ last.result = "ok"
       /\ revisions = last.revsBefore

\* A ticket with a history is updated with its own title, padded with
\* whitespace, and its own description.
C2_Witness ==
    /\ OnExistingTicket("updateTicket")
    /\ last.result = "ok"
    /\ NothingDiffers(last.updates, last.before)
    /\ IsString(last.updates.title)
    /\ last.updates.title.v # Trim(last.updates.title.v)
    /\ IsString(last.updates.description)
    /\ \E i \in DOMAIN last.revsBefore : last.revsBefore[i].ticketId = last.ticketId

\* C3: an updateTicket call that changes N of the fields title, description
\* and column adds exactly N revisions to the ticket, one per changed field,
\* with oldValue the field's value before the call and newValue its value
\* after the call; a field whose value does not change gets no revision.
C3_OneRevisionPerChangedField ==
    (OnExistingTicket("updateTicket") /\ ValidUpdates(last.updates))
    => LET t == last.ticketId
           changed == {f \in Fields : FieldOf(tickets[t], f) # FieldOf(last.before, f)}
           RevsOf(f) == {i \in DOMAIN AddedRevisions : AddedRevisions[i].field = f}
       IN /\ last.result = "ok"
          /\ OnlyAppended
          /\ Len(AddedRevisions) = Cardinality(changed)
          /\ \A i \in DOMAIN AddedRevisions :
                /\ AddedRevisions[i].ticketId = t
                /\ AddedRevisions[i].field \in changed
          /\ \A f \in changed :
                \E i \in DOMAIN AddedRevisions :
                   /\ RevsOf(f) = {i}
                   /\ AddedRevisions[i].oldValue = FieldOf(last.before, f)
                   /\ AddedRevisions[i].newValue = FieldOf(tickets[t], f)
          /\ \A f \in Fields \ changed : RevsOf(f) = {}

\* One call changes the title, the description and the column.
C3_Witness ==
    /\ OnExistingTicket("updateTicket")
    /\ last.result = "ok"
    /\ Len(AddedRevisions) = 3
    /\ \A f \in Fields : FieldOf(tickets[last.ticketId], f) # FieldOf(last.before, f)

C5_InvalidUpdateLeavesNoTrace ==
    (OnExistingTicket("updateTicket") /\ ~ValidUpdates(last.updates))
    => /\ last.result = "Validation"
       /\ tickets = last.ticketsBefore
       /\ revisions = last.revsBefore
       /\ activity = last.actBefore
       /\ events = <<>>

\* The title is blank while the description and the column are valid and new.
C5_Witness ==
    /\ OnExistingTicket("updateTicket")
    /\ last.result = "Validation"
    /\ IsString(last.updates.title) /\ Trim(last.updates.title.v) = <<>>
    /\ IsString(last.updates.description)
    /\ last.updates.description.v # last.before.description
    /\ isValidColumn(last.updates.column)
    /\ last.updates.column.v # last.before.column
    /\ tickets[last.ticketId] = last.before

\* The last call was an updateTicket that supplied nothing new, or a
\* moveTicket to the column the ticket was already in.
NoOpChange ==
    \/ /\ OnExistingTicket("updateTicket")
       /\ ValidUpdates(last.updates)
       /\ NothingDiffers(last.updates, last.before)
    \/ /\ OnExistingTicket("moveTicket")
       /\ isValidColumn(last.updates.column)
       /\ last.updates.column.v = last.before.column

ChangeChannel == IF last.op = "updateTicket" THEN "TICKET_UPDATED" ELSE "TICKET_MOVED"

TicketChangeEvents ==
    {i \in DOMAIN events : events[i].channel \in {"TICKET_UPDATED", "TICKET_MOVED"}}

\* C6 (as claimed): an updateTicket call in which no supplied field differs,
\* and a moveTicket call to the ticket's current column, publish no
\* ticket-updated and no ticket-moved event.
C6_NoEventForNoOp == NoOpChange => TicketChangeEvents = {}

\* C6 (amended): such a call records no revision and leaves title,
\* description, column and position as they were, but it still publishes
\* exactly one ticket change event (ticket-updated for updateTicket,
\* ticket-moved for moveTicket) carrying the stored ticket and its project id.
C6_NoOpStillPublishesOneEvent ==
    NoOpChange
    => LET t == last.ticketId IN
       /\ last.result = "ok"
       /\ revisions = last.revsBefore
       /\ \A f \in Fields : FieldOf(tickets[t], f) = FieldOf(last.before, f)
       /\ tickets[t].position = last.before.position
       /\ \E i \in DOMAIN events :
             /\ TicketChangeEvents = {i}
             /\ events[i].channel = ChangeChannel
             /\ events[i].projectId = last.before.projectId
             /\ events[i].payload = tickets[t]

\* A move to the column the ticket is already in.
C6_Witness ==
    /\ OnExistingTicket("moveTicket")
    /\ NoOpChange
    /\ last.result = "ok"
    /\ TicketChangeEvents # {}
    /\ last.before.column = in_review

\* C7: a successful updateTicket call that changes at least one field writes
\* exactly one Activity entry, 'ticket_updated', and publishes exactly one
\* ticket-updated event, which carries the ticket's project id, however many
\* fields changed.
C7_OneActivityAndOneEventPerUpdate ==
    (/\ OnExistingTicket("updateTicket")
     /\ last.result = "ok"
     /\ \E f \in Fields : FieldOf(tickets[last.ticketId], f) # FieldOf(last.before, f))
    => /\ Len(activity) = Len(last.actBefore) + 1
       /\ SubSeq(activity, 1, Len(last.actBefore)) = last.actBefore
       /\ activity[Len(activity)].action = "ticket_updated"
       /\ activity[Len(activity)].ticketId = last.ticketId
       /\ \E i \in DOMAIN events :
             /\ {j \in DOMAIN events : events[j].channel = "TICKET_UPDATED"} = {i}
             /\ events[i].projectId = last.before.projectId

\* Two fields change in one call.
C7_Witness ==
    /\ OnExistingTicket("updateTicket")
    /\ last.result = "ok"
    /\ Cardinality({f \in Fields :
                      FieldOf(tickets[last.ticketId], f) # FieldOf(last.before, f)}) = 2
    /\ Len(activity) = Len(last.actBefore) + 1

\* C8: closeTicket on a ticket already in 'done', and openTicket on a ticket
\* already in 'backlog', records no revision and leaves the ticket's column
\* and position unchanged, however often it is repeated.
C8_CloseOfClosedIsNoOp ==
    (\/ OnExistingTicket("closeTicket") /\ last.before.column = done
     \/ OnExistingTicket("openTicket") /\ last.before.column = backlog)
    => /\ last.result = "ok"
       /\ revisions = last.revsBefore
       /\ tickets[last.ticketId].column = last.before.column
       /\ tickets[last.ticketId].position = last.before.position

\* closeTicket is repeated: the call before it already closed the ticket.
C8_Witness ==
    /\ OnExistingTicket("closeTicket")
    /\ last.before.column = done
    /\ last.result = "ok"
    /\ Len(last.revsBefore) >= 1
    /\ last.revsBefore[Len(last.revsBefore)].ticketId = last.ticketId
    /\ last.revsBefore[Len(last.revsBefore)].newValue = done
    /\ Len(activity) >= 3
    /\ activity[Len(activity) - 1].action = "ticket_moved"
    /\ activity[Len(activity) - 1].ticketId = last.ticketId

\* C9: createTicket inserts the ticket with the trimmed title, in column
\* 'backlog' when none is given, at position 1 + the highest position among
\* the tickets of the same project and column (0 when there is none), and
\* records no revision for it.
C9_CreateAppendsWithoutRevision ==
    (last.op = "createTicket" /\ last.result = "ok")
    => LET t == last.ticketId
           col == IF last.updates.column = Undefined THEN backlog
                  ELSE last.updates.column.v
       IN /\ t \notin DOMAIN last.ticketsBefore
          /\ t \in DOMAIN tickets
          /\ tickets[t].projectId = last.projectId
          /\ tickets[t].title = Trim(last.updates.title.v)
          /\ tickets[t].title # <<>>
          /\ tickets[t].column = col
          /\ AppendsTo(tickets[t].position, InColumnBefore(last.projectId, col))
          /\ revisions = last.revsBefore
          /\ \A i \in DOMAIN revisions : revisions[i].ticketId # t

\* A padded title; the column already holds a ticket, and another column of
\* the project holds one that does not count.
C9_Witness ==
    /\ last.op = "createTicket" /\ last.result = "ok"
    /\ last.updates.title.v # Trim(last.updates.title.v)
    /\ tickets[last.ticketId].position = 1
    /\ \E x \in DOMAIN last.ticketsBefore :
          /\ last.ticketsBefore[x].projectId = last.projectId
          /\ last.ticketsBefore[x].column # tickets[last.ticketId].column

\* C10: createAgent with a name that, once trimmed, is the name of an existing
\* agent fails with Duplicate and creates nothing; in every state no two
\* agents have the same name.
C10_AgentNamesUnique ==
    /\ \A a, b \in DOMAIN agents : agents[a].name = agents[b].name => a = b
    /\ (/\ last.op = "createAgent"
        /\ IsString(last.name)
        /\ \E a \in DOMAIN last.agentsBefore :
              last.agentsBefore[a].name = Trim(last.name.v))
       => /\ last.result = "Duplicate"
          /\ agents = last.agentsBefore

\* The duplicate differs from the existing name by surrounding whitespace.
C10_Witness ==
    /\ last.op = "createAgent"
    /\ last.result = "Duplicate"
    /\ last.name.v # Trim(last.name.v)
    /\ Cardinality(DOMAIN agents) = 1

\* The tickets that belonged to project p before the last call.
TicketsOfBefore(p) ==
    {t \in DOMAIN last.ticketsBefore : last.ticketsBefore[t].projectId = p}

\* C11: after a successful deleteProject(P) no ticket of P remains and no
\* comment or revision of a ticket of P remains, however many there were; the
\* tickets, comments and revisions of the other projects are as before.
C11_DeleteProjectCascades ==
    (last.op = "deleteProject" /\ last.result = "ok")
    => LET gone == TicketsOfBefore(last.projectId)
           kept == DOMAIN last.ticketsBefore \ gone
           Others(rows) == SelectSeq(rows, LAMBDA r : r.ticketId \in kept)
       IN /\ \A t \in DOMAIN tickets : tickets[t].projectId # last.projectId
          /\ \A i \in DOMAIN comments : comments[i].ticketId \notin gone
          /\ \A i \in DOMAIN revisions : revisions[i].ticketId \notin gone
          /\ DOMAIN tickets = kept
          /\ \A t \in kept : tickets[t] = last.ticketsBefore[t]
          /\ comments = Others(last.commentsBefore)
          /\ revisions = Others(last.revsBefore)

\* The deleted project had a ticket with a comment and a revision, and a
\* ticket of another project is still there.
C11_Witness ==
    /\ last.op = "deleteProject" /\ last.result = "ok"
    /\ \E t \in TicketsOfBefore(last.projectId) :
          /\ \E i \in DOMAIN last.commentsBefore : last.commentsBefore[i].ticketId = t
          /\ \E i \in DOMAIN last.revsBefore : last.revsBefore[i].ticketId = t
    /\ tickets # <<>>

\* The row with its agent reference set to null when it refers to agent id.
Dereferenced(row, id) ==
    IF row.agentId = id THEN [row EXCEPT !.agentId = NULL] ELSE row

\* C12: deleting an agent that was the actor of revisions or the creator of
\* tickets leaves every such revision and ticket present, all other fields
\* unchanged, its agent reference null; rows of other actors are as before.
C12_DeleteAgentNullsReferences ==
    (last.op = "deleteAgent" /\ last.result = "ok")
    => LET id == last.ret.id
       IN /\ id \notin DOMAIN agents
          /\ DOMAIN tickets = DOMAIN last.ticketsBefore
          /\ \A t \in DOMAIN tickets :
                tickets[t] = Dereferenced(last.ticketsBefore[t], id)
          /\ Len(revisions) = Len(last.revsBefore)
          /\ \A i \in DOMAIN revisions :
                revisions[i] = Dereferenced(last.revsBefore[i], id)

\* The deleted agent had created a ticket and was the actor of a revision.
C12_Witness ==
    /\ last.op = "deleteAgent" /\ last.result = "ok"
    /\ \E t \in DOMAIN last.ticketsBefore :
          /\ last.ticketsBefore[t].agentId = last.ret.id
          /\ tickets[t].agentId = NULL
    /\ \E i \in DOMAIN last.revsBefore :
          /\ last.revsBefore[i].agentId = last.ret.id
          /\ revisions[i].agentId = NULL

\* Every row of the table before the call is still there, in place, with at
\* most its reference to agent id set to null.
AllKept(rows, rowsBefore, id) ==
    /\ Len(rows) = Len(rowsBefore)
    /\ \A i \in DOMAIN rows : rows[i] = Dereferenced(rowsBefore[i], id)

\* C13 (as claimed): deleteAgent removes only the agent record; every ticket,
\* comment, revision, activity entry and audit entry that existed before the
\* call still exists after it.
C13_DeleteAgentKeepsEverything ==
    (last.op = "deleteAgent" /\ last.result = "ok")
    => LET id == last.ret.id
       IN /\ DOMAIN tickets = DOMAIN last.ticketsBefore
          /\ Len(comments) = Len(last.commentsBefore)
          /\ AllKept(revisions, last.revsBefore, id)
          /\ AllKept(activity, last.actBefore, id)
          /\ AllKept(audit, last.auditBefore, id)

\* C13 (amended): deleteAgent removes the agent record and the comments that
\* agent wrote; every ticket, revision, activity entry and audit entry that
\* existed before the call still exists, with at most its agent reference
\* nulled, and the comments of the other agents are unchanged.
C13_DeleteAgentRemovesOnlyItsComments ==
    (last.op = "deleteAgent" /\ last.result = "ok")
    => LET id == last.ret.id
       IN /\ DOMAIN agents = DOMAIN last.agentsBefore \ {id}
          /\ \A a \in DOMAIN agents : agents[a] = last.agentsBefore[a]
          /\ DOMAIN tickets = DOMAIN last.ticketsBefore
          /\ \A t \in DOMAIN tickets :
                tickets[t] = Dereferenced(last.ticketsBefore[t], id)
          /\ comments = SelectSeq(last.commentsBefore, LAMBDA c : c.agentId # id)
          /\ AllKept(revisions, last.revsBefore, id)
          /\ AllKept(activity, last.actBefore, id)
          /\ AllKept(audit, last.auditBefore, id)

\* The deleted agent had written a comment, which is gone, and had activity
\* and audit entries, which remain.
C13_Witness ==
    /\ last.op = "deleteAgent" /\ last.result = "ok"
    /\ \E i \in DOMAIN last.commentsBefore : last.commentsBefore[i].agentId = last.ret.id
    /\ Len(comments) < Len(last.commentsBefore)
    /\ \E i \in DOMAIN last.actBefore : last.actBefore[i].agentId = last.ret.id
    /\ \E i \in DOMAIN last.auditBefore : last.auditBefore[i].agentId = last.ret.id
    /\ Len(activity) = Len(last.actBefore)

\* The operations that address one ticket.
TicketOps ==
    {"getTicket", "updateTicket", "moveTicket", "closeTicket", "openTicket",
     "createComment", "deleteTicket", "getCommentsByTicket", "getRevisionsByTicket"}

\* The last call named a ticket id that was issued and is no longer there.
OnDeletedTicket ==
    /\ last.op \in TicketOps
    /\ last.ticketId \in 1 .. (nextTicket - 1)
    /\ last.ticketId \notin DOMAIN last.ticketsBefore

\* C14: deleteTicket on an existing ticket removes the ticket with all its
\* comments and revisions and publishes exactly one ticket-deleted event, for
\* the ticket's project; afterwards every operation on that ticket id fails
\* with NotFound and publishes nothing.
C14_DeleteTicketIsFinal ==
    /\ OnExistingTicket("deleteTicket")
       => LET t == last.ticketId
          IN /\ last.result = "ok"
             /\ t \notin DOMAIN tickets
             /\ \A i \in DOMAIN comments : comments[i].ticketId # t
             /\ \A i \in DOMAIN revisions : revisions[i].ticketId # t
             /\ \E i \in DOMAIN events :
                   /\ {j \in DOMAIN events : events[j].channel = "TICKET_DELETED"} = {i}
                   /\ events[i].projectId = last.before.projectId
                   /\ events[i].payload = last.before
    /\ OnDeletedTicket
       => /\ last.result = "NotFound"
          /\ events = <<>>
          /\ last.ticketId \notin DOMAIN tickets

\* deleteTicket is called again on the id of a ticket it has deleted.
C14_Witness ==
    /\ last.op = "deleteTicket"
    /\ OnDeletedTicket
    /\ last.result = "NotFound"
    /\ last.projectId \in DOMAIN projects
    /\ \E i \in DOMAIN audit : audit[i].method = "DELETE" /\ audit[i].path = "ticket"

UnderWrongProject ==
    /\ last.op \in TicketOps
    /\ last.ticketId \in DOMAIN last.ticketsBefore
    /\ last.ticketsBefore[last.ticketId].projectId # last.projectId

\* C16: getTicket, updateTicket, moveTicket, closeTicket, openTicket,
\* deleteTicket and createComment called with the id of an existing ticket and
\* the id of a project that is not the ticket's fail with NotFound and leave
\* the ticket, its comments and its revisions unchanged.
C16_TicketOnlyUnderItsProject ==
    UnderWrongProject
    => /\ last.result = "NotFound"
       /\ tickets = last.ticketsBefore
       /\ comments = last.commentsBefore
       /\ revisions = last.revsBefore
       /\ events = <<>>

\* deleteTicket names a ticket of one project under another existing project.
C16_Witness ==
    /\ last.op = "deleteTicket"
    /\ UnderWrongProject
    /\ last.projectId \in DOMAIN projects
    /\ last.result = "NotFound"
    /\ last.ticketId \in DOMAIN tickets

\* C17: createTicket fails with NotFound when the project does not exist,
\* whatever the other arguments; under an existing project it fails with
\* Validation when the title is not a string or is empty after trimming, or
\* when the supplied column is not one of the five; a failing call inserts no
\* ticket, writes no Activity entry and publishes nothing.
C17_CreateTicketRejects ==
    last.op = "createTicket"
    => LET u == last.updates
           blank == ~IsString(u.title) \/ Trim(u.title.v) = <<>>
           badColumn == u.column # Undefined /\ ~(IsString(u.column) /\ u.column.v \in VALID_COLUMNS)
       IN /\ last.projectId \notin DOMAIN projects => last.result = "NotFound"
          /\ (last.projectId \in DOMAIN projects /\ (blank \/ badColumn))
             => last.result = "Validation"
          /\ last.result # "ok"
             => /\ tickets = last.ticketsBefore
                /\ activity = last.actBefore
                /\ events = <<>>
                /\ nextTicket \notin DOMAIN tickets

\* On a board that holds a ticket, a title of whitespace is rejected.
C17_Witness ==
    /\ last.op = "createTicket"
    /\ last.result = "Validation"
    /\ last.projectId \in DOMAIN projects
    /\ IsString(last.updates.title) /\ last.updates.title.v # <<>>
    /\ isValidColumn(last.updates.column)
    /\ tickets # <<>>

\* C18: when the write of the Activity entry or of the audit entry fails
\* during a mutation, the mutation stays applied and the call returns its
\* normal result instead of an error.
C18_LogFailureDoesNotAbort ==
    last.fault # "none" => last.result = "ok"

ReadOps ==
    {"getTicket", "getTicketsByProject", "getCommentsByTicket",
     "getRevisionsByTicket", "getProject"}

Telemetry == {"TICKET_VIEWED", "AUDIT_ADDED", "ACTIVITY_ADDED"}

\* rows is rowsBefore followed by one more row, written for agent a.
OneMoreFor(rows, rowsBefore, a) ==
    /\ Len(rows) = Len(rowsBefore) + 1
    /\ SubSeq(rows, 1, Len(rowsBefore)) = rowsBefore
    /\ rows[Len(rows)].agentId = a

Obtained(s) ==
    LET vals == SelectSeq(s.calls, LAMBDA c : c.state = "value")
    IN [k \in DOMAIN vals |-> vals[k].value]

\* C20: between subscribing and cancelling, the successive next() calls of a
\* subscriber obtain exactly the payloads published on its channel, each once
\* and in publish order: the k-th call has the k-th payload as soon as it is
\* published, whether that was before the call (buffered) or after it
\* (pending), and is pending until then; a payload published on another
\* channel is never delivered.  After cancelling, what was obtained is a
\* prefix of what was published on the channel while subscribed.
C20_DeliveredOnceInPublishOrder ==
    \A i \in DOMAIN subs :
       LET s == subs[i] IN
       /\ \A k \in DOMAIN s.heard : s.heard[k].channel = s.event
       /\ \A k \in DOMAIN s.calls :
             s.calls[k].state = "value" => s.calls[k].value.channel = s.event
       /\ ~s.done
          => \A k \in DOMAIN s.calls :
                s.calls[k] = IF k <= Len(s.heard) THEN Value(s.heard[k]) ELSE Pending
       /\ s.done
          => /\ Len(Obtained(s)) <= Len(s.heard)
             /\ Obtained(s) = SubSeq(s.heard, 1, Len(Obtained(s)))

\* The first call subscribes and the second publishes, so the payload is
\* buffered when the first next() call takes it; the second next() call is
\* pending until the publish just made resolves it.
C20_Witness ==
    /\ last.op = "publish"
    /\ subs # <<>>
    /\ ~subs[1].done
    /\ Len(subs[1].calls) = 2
    /\ subs[1].calls[1].state = "value"
    /\ subs[1].calls[1].value.payload.n = 2
    /\ subs[1].calls[2] = Value(events[1])
    /\ subs[1].pushQueue = <<>>

\* The subscriber holds the payload: buffered last, or as the result of a call.
Holds(s, ev) ==
    \/ s.pushQueue # <<>> /\ s.pushQueue[Len(s.pushQueue)] = ev
    \/ \E k \in DOMAIN s.calls : s.calls[k] = Value(ev)

\* C21: a second return() changes nothing; a cancelled subscriber receives no
\* payload published afterwards and its next() reports done; return() leaves
\* every other subscriber as it was, and every subscriber of the channel that
\* has not cancelled receives each later payload.
C21_CancelIsIdempotentAndLocal ==
    /\ \A i \in DOMAIN subs :
          subs[i].done => subs[i].pushQueue = <<>> /\ subs[i].pullQueue = <<>>
    /\ last.op = "return"
       => /\ subs[last.ticketId].done
          /\ last.subsBefore[last.ticketId].done => subs = last.subsBefore
          /\ \A j \in DOMAIN subs \ {last.ticketId} : subs[j] = last.subsBefore[j]
    /\ (last.op = "next" /\ last.subsBefore[last.ticketId].done)
       => LET s == subs[last.ticketId]
          IN /\ s.calls = Append(last.subsBefore[last.ticketId].calls, Done)
             /\ s.filter # NULL => s.outer[Len(s.outer)].state = "done"
             /\ [s EXCEPT !.calls = <<>>, !.outer = <<>>]
                = [last.subsBefore[last.ticketId] EXCEPT !.calls = <<>>, !.outer = <<>>]
    /\ last.op = "publish"
       => \A j \in DOMAIN subs :
             /\ last.subsBefore[j].done
                => [subs[j] EXCEPT !.heard = <<>>]
                   = [last.subsBefore[j] EXCEPT !.heard = <<>>]
             /\ (~last.subsBefore[j].done /\ subs[j].event = events[1].channel)
                => Holds(subs[j], events[1])

\* return() is called a second time on a subscriber that never heard a
\* payload; a later subscriber of the same channel has one buffered, which was
\* therefore published after the first return().
C21_Witness ==
    /\ last.op = "return"
    /\ last.subsBefore[last.ticketId].done
    /\ \E j \in DOMAIN subs :
          /\ j > last.ticketId
          /\ subs[j].event = subs[last.ticketId].event
          /\ ~subs[j].done
          /\ subs[j].pushQueue # <<>>
          /\ subs[last.ticketId].heard = <<>>

\* The payloads of project p among evs, in order.
OfProject(evs, p) == SelectSeq(evs, LAMBDA ev : ev.projectId = p)

Least(a, b) == IF a <= b THEN a ELSE b

\* C22: a subscription scoped to project P yields, in publish order, exactly
\* the payloads of P published on its channel and skips the others: what it
\* has yielded is the first part of the payloads of P, it never yields a
\* payload of another project, and while it is not cancelled every next()
\* call is answered as soon as a payload of P is there for it.
C22_FilterYieldsExactlyTheMatching ==
    \A i \in DOMAIN subs :
       LET s == subs[i]
           matching == OfProject(s.heard, s.filter)
       IN s.filter # NULL
          => /\ \A k \in DOMAIN s.yielded : s.yielded[k].projectId = s.filter
             /\ Len(s.yielded) <= Len(matching)
             /\ s.yielded = SubSeq(matching, 1, Len(s.yielded))
             /\ ~s.done => Len(s.yielded) = Least(Len(s.outer), Len(matching))
             /\ Len(s.yielded)
                = Cardinality({k \in DOMAIN s.outer : s.outer[k].state = "value"})

\* A scoped subscriber was waiting in next(); a payload of another project was
\* published and skipped, and the payload of its own project just published
\* is what the call yields.
C22_Witness ==
    /\ last.op = "publish"
    /\ \E i \in DOMAIN subs :
          /\ subs[i].filter # NULL
          /\ Len(subs[i].heard) >= 2
          /\ subs[i].heard[1].projectId # subs[i].filter
          /\ subs[i].yielded = <<events[1]>>
          /\ Len(subs[i].outer) = 1
          /\ last.subsBefore[i].outer[1].state = "pending"

\* The routes an agent has to authenticate for.
AgentRoutes == {"POST /tickets", "PATCH /tickets", "DELETE /tickets", "POST /comments"}

\* The agents registered when the last call was made whose API key is
\* exactly the string presented.
KeyedBy(header) ==
    {a \in DOMAIN last.agentsBefore :
        IsString(header) /\ header.v = <<last.agentsBefore[a].apiKey>>}

\* C23: a route for agents runs its handler only when the X-Api-Key header is
\* exactly the API key of an agent registered at that time, and the handler
\* then acts as that agent; a missing or empty key is answered 401, any other
\* key 403, and then the handler has not run and no ticket, comment or
\* revision has changed.
C23_OnlyARegisteredKeyRunsTheHandler ==
    request.route \in AgentRoutes
    => /\ request.ran <=> KeyedBy(request.header) # {}
       /\ request.ran
          => /\ request.agentId \in KeyedBy(request.header)
             /\ last.op \in {"createTicket", "updateTicket", "deleteTicket", "createComment"}
             /\ last.op # "deleteTicket" => last.actor = request.agentId
       /\ ~request.ran
          => /\ request.status
                = (IF ~IsString(request.header) \/ request.header.v = <<>>
                   THEN 401 ELSE 403)
             /\ last.result = "Rejected"
             /\ tickets = last.ticketsBefore
             /\ comments = last.commentsBefore
             /\ revisions = last.revsBefore

\* The second of two agents presents its key after the first was deleted and
\* creates a ticket, which bears its id.
C23_Witness ==
    /\ request.route = "POST /tickets"
    /\ request.ran
    /\ request.status = 201
    /\ request.header = Str(<<2>>)
    /\ 1 \notin DOMAIN agents
    /\ last.ret.agentId = 2

\* The routes an admin has to authenticate for.
AdminRoutes == {"POST /agents", "DELETE /agents", "POST /admin-key/rotate"}

\* The exchange was a rotation that was carried out.
Rotated(exchange) == exchange.route = "POST /admin-key/rotate" /\ exchange.ran

\* A step in which the admin key is rotated, through the route or on the
\* service, or the server starts.
RotatesOrStarts ==
    \/ Rotated(request')
    \/ request'.route = "start"
    \/ last'.op = "rotateAdminKey"

\* What holds of every step of the server, for C24.
RotationStep ==
    /\ Rotated(request')
       => /\ settings' = request'.key
          /\ settings' # settings
          /\ request'.key \notin IssuedKeys \cup EnvKeys
    /\ request'.route \in AdminRoutes /\ settings.t # "undefined"
       => /\ request'.ran <=> request'.header = settings
          /\ ~request'.ran /\ IsString(request'.header) /\ request'.header.v # <<>>
             => request'.status = 403
    /\ Rotated(request) /\ request'.route \in AdminRoutes
       => /\ request'.header = request.settingsBefore
             => ~request'.ran /\ request'.status = 403
          /\ request'.header = request.key => request'.ran
    /\ settings.t # "undefined" /\ ~RotatesOrStarts => settings' = settings

\* C24: rotating the admin key invalidates the old key at once. The rotation
\* stores the key K' it returns, a key that was never valid before; a request
\* on an admin route is let through exactly when it presents the key stored
\* at that time, so the request that follows a rotation is answered 403 when
\* it presents the previous key and is let through when it presents K'; and
\* only a rotation or a start of the server changes the stored key, so this
\* stays so with no restart.
C24_RotationInvalidatesTheOldKey == [][RotationStep]_vars

\* The first key was rotated through the route, and the request that follows
\* presents the first key again: it is answered 403.
C24_Witness ==
    /\ request.route = "POST /agents"
    /\ request.header = Str(<<1>>)
    /\ request.status = 403
    /\ request.settingsBefore = Str(<<2>>)
    /\ settings = Str(<<2>>)
    /\ nextKey = 3

\* The operator supplies a key at the start of the server.
Supplied(envKey) == IsString(envKey) /\ envKey.v # <<>>

\* What holds of every step in which getOrCreateAdminKey is called, at the
\* start of the server or by the middleware of an admin route; for C25.
AdminKeyStep ==
    /\ request'.route = "start"
       => /\ settings' = request'.key
          /\ IF Supplied(request'.header)
             THEN request'.key = request'.header
             ELSE IF settings.t # "undefined"
             THEN request'.key = settings /\ nextKey' = nextKey
             ELSE /\ request'.key = Str(<<nextKey>>)
                  /\ request'.key \notin IssuedKeys
                  /\ nextKey' = nextKey + 1
    /\ request'.route \in AdminRoutes /\ request'.status # 401
       => IF settings.t = "undefined"
          THEN settings' = Str(<<nextKey>>) /\ nextKey' = nextKey + 1
          ELSE Rotated(request') \/ (settings' = settings /\ nextKey' = nextKey)

\* C25: the admin key is generated once. The first call of
\* getOrCreateAdminKey generates a key and stores it; every later call, after
\* a restart on the same store as well, returns the stored key and generates
\* nothing, until the key is rotated; and a key supplied by the operator at
\* the start is stored and returned instead.
C25_AdminKeyIsGeneratedOnce == [][AdminKeyStep]_vars

\* The server is started again with no key supplied, on a store that holds
\* the key generated at the first start: that key is returned.
C25_Witness ==
    /\ request.route = "start"
    /\ request.header = Undefined
    /\ request.settingsBefore = Str(<<1>>)
    /\ request.key = Str(<<1>>)
    /\ nextKey = 2

\* The cases of a request to the MCP endpoint: no key; a key of no agent; a
\* key of an agent, no initialize request, and no session in the server's
\* memory under the id sent, if one is sent; and something threw.
MissingKey(r) == ~IsString(r.header) \/ r.header.v = <<>>

UnknownKey(r) == ~MissingKey(r) /\ KeyedBy(r.header) = {}

NoSession(r) ==
    /\ KeyedBy(r.header) # {}
    /\ ~r.initialize
    /\ r.session = NULL \/ r.session \notin DOMAIN r.sessionsBefore

Failed(r) == r.fault # "none"

\* The session id sent is that of a persisted session of another agent.
OfAnotherAgent(r) ==
    /\ r.session # NULL
    /\ r.session \in DOMAIN r.persistedBefore
    /\ r.persistedBefore[r.session] \notin KeyedBy(r.header)

NoSessionCodes == {-32000, -32003, -32004}

Matching(p, column) ==
    {t \in DOMAIN tickets :
        /\ tickets[t].projectId = p
        /\ IsString(column) => tickets[t].column = column.v}

Most(a, b) == IF a >= b THEN a ELSE b

\* The tickets on page k of the rows, n to a page.
OnPage(rows, k, n) == {Paginate(rows, k, n).data[i].id : i \in DOMAIN Paginate(rows, k, n).data}

FieldHistory(revs, t, f) == SelectSeq(revs, LAMBDA r : r.ticketId = t /\ r.field = f)

RevisedFields == {"title", "description", "column"}

\* The history of a field is a chain that ends at the ticket's value.
Chained(history, value) ==
    /\ \A i \in 1 .. Len(history) - 1 : history[i].newValue = history[i + 1].oldValue
    /\ history # <<>> => history[Len(history)].newValue = value

\* What holds of every step, for C28: a ticket is created with no revision;
\* the history of a field only grows; while it does not grow the value of the
\* field stays, and when it grows the first revision added starts from the
\* value the field had and the history is again a chain that ends at the
\* value the field has.
HistoryStep ==
    \A t \in DOMAIN tickets' : \A f \in RevisedFields :
       LET after == FieldHistory(revisions', t, f)
       IN IF t \notin DOMAIN tickets
          THEN after = <<>>
          ELSE LET before == FieldHistory(revisions, t, f)
               IN /\ Len(after) >= Len(before)
                  /\ \A i \in DOMAIN before :
                        /\ after[i].oldValue = before[i].oldValue
                        /\ after[i].newValue = before[i].newValue
                  /\ Chained(after, tickets'[t][f])
                  /\ IF Len(after) = Len(before)
                     THEN tickets'[t][f] = tickets[t][f]
                     ELSE after[Len(before) + 1].oldValue = tickets[t][f]

\* C28: the revisions of a ticket form a consistent history. For each field,
\* in the order of recording: the first revision starts from the value the
\* ticket was created with (no step changes a field that has no revision
\* yet without adding one that starts from its value), each revision starts
\* from the value the one before it ended at, the latest one ends at the
\* ticket's value, and a field with no revision has the value of creation.
C28_RevisionsAreAConsistentHistory == [][HistoryStep]_vars

\* A ticket created with title "a" and then given another title is given the
\* title "a" again: the two revisions of its title chain, from "a" and back
\* to "a", while its description has no revision.
C28_Witness ==
    \E t \in DOMAIN tickets :
       LET titles == FieldHistory(revisions, t, "title")
       IN /\ Len(titles) = 2
          /\ titles[1].oldValue = <<"a">>
          /\ titles[1].newValue = titles[2].oldValue
          /\ titles[2].newValue = <<"a">>
          /\ tickets[t].title = <<"a">>
          /\ FieldHistory(revisions, t, "description") = <<>>

\* C29: in every reachable state, whatever createTicket, updateTicket,
\* moveTicket, closeTicket, openTicket and deleteTicket calls were made, no
\* two tickets of the same project and the same column have the same
\* position.
C29_PositionsAreUniqueInAColumn ==
    \A a, b \in DOMAIN tickets :
       /\ a # b
       /\ tickets[a].projectId = tickets[b].projectId
       /\ tickets[a].column = tickets[b].column
       => tickets[a].position # tickets[b].position

\* A ticket was moved into a column where another ticket, created there, is
\* at position 0, the position the moved ticket had in its own column.
C29_Witness ==
    /\ last.op = "moveTicket"
    /\ last.result = "ok"
    /\ last.before.position = 0
    /\ last.before.column # tickets[last.ticketId].column
    /\ \E b \in DOMAIN tickets :
          /\ b # last.ticketId
          /\ tickets[b].projectId = tickets[last.ticketId].projectId
          /\ tickets[b].column = tickets[last.ticketId].column
          /\ tickets[b].position = 0
          /\ tickets[last.ticketId].position = 1

\* What holds of every step, for C30: a ticket that is there before and
\* after the step and is in the same column has the same position, and a
\* ticket other than the one the call is made on keeps its column and its
\* position.
PositionStep ==
    \A t \in DOMAIN tickets \cap DOMAIN tickets' :
       /\ tickets'[t].column = tickets[t].column
          => tickets'[t].position = tickets[t].position
       /\ t # last'.ticketId
          => /\ tickets'[t].column = tickets[t].column
             /\ tickets'[t].position = tickets[t].position

\* C30: the position of a ticket changes only when its own column changes.
\* An update of its title or description, a move to the column it is in, and
\* the creation, the move or the deletion of another ticket leave its column
\* and its position as they are; the tickets behind a deleted ticket are not
\* renumbered.
C30_PositionChangesOnlyWithTheColumn == [][PositionStep]_vars

\* The first ticket of a column was deleted: the second one is still at
\* position 1, and no ticket of the column is at position 0.
C30_Witness ==
    /\ last.op = "deleteTicket"
    /\ last.result = "ok"
    /\ last.before.position = 0
    /\ \E b \in DOMAIN tickets :
          /\ tickets[b].projectId = last.before.projectId
          /\ tickets[b].column = last.before.column
          /\ tickets[b].position = 1
    /\ \A b \in DOMAIN tickets :
          tickets[b].projectId = last.before.projectId /\ tickets[b].column = last.before.column
          => tickets[b].position # 0

\* The revisions that outlive a step: those of the tickets that are still
\* there, with the actor nulled where the actor's agent is deleted by the step.
Surviving ==
    LET kept == SelectSeq(revisions, LAMBDA r : r.ticketId \in DOMAIN tickets')
    IN [i \in DOMAIN kept |->
           IF kept[i].agentId \in DOMAIN agents \ DOMAIN agents'
           THEN [kept[i] EXCEPT !.agentId = NULL]
           ELSE kept[i]]

\* What holds of every step, for C31: the log after the step begins with the
\* surviving revisions, unchanged and in their order; a revision of a ticket
\* that is still there is never removed; and a revision is gone only with
\* its ticket.
AppendOnlyStep ==
    /\ Len(revisions') >= Len(Surviving)
    /\ SubSeq(revisions', 1, Len(Surviving)) = Surviving
    /\ \A i \in DOMAIN revisions :
          revisions[i].ticketId \in DOMAIN tickets' =>
             \E j \in DOMAIN revisions' :
                /\ revisions'[j].ticketId = revisions[i].ticketId
                /\ revisions'[j].field = revisions[i].field
                /\ revisions'[j].oldValue = revisions[i].oldValue
                /\ revisions'[j].newValue = revisions[i].newValue
                /\ revisions'[j].timestamp = revisions[i].timestamp
                /\ revisions'[j].agentId \in {revisions[i].agentId, NULL}
    /\ \A j \in DOMAIN revisions' : revisions'[j].ticketId \in DOMAIN tickets'

\* C31: the revision log is append-only and immutable. While a ticket
\* exists no operation removes one of its revisions or changes the ticket,
\* field, old value, new value or timestamp of one; a revision goes only
\* together with its ticket (deleteTicket, deleteProject), and its actor
\* changes only to null, when the actor's agent is deleted.
C31_RevisionLogIsAppendOnly == [][AppendOnlyStep]_vars

\* A ticket whose title and description were revised is moved to another
\* column: the two revisions it had are still there, as they were and where
\* they were, and the revision of the column follows them.
C31_Witness ==
    /\ last.op = "moveTicket"
    /\ last.result = "ok"
    /\ Len(RevisionsOf(last.revsBefore, last.ticketId)) = 2
    /\ Len(revisions) = Len(last.revsBefore) + 1
    /\ SubSeq(revisions, 1, Len(last.revsBefore)) = last.revsBefore
    /\ revisions[Len(revisions)].field = "column"

\* The revisions the last call added for a field of its ticket.
AddedFor(f) ==
    FieldHistory(SubSeq(revisions, Len(last.revsBefore) + 1, Len(revisions)),
                 last.ticketId, f)

\* C32: the update-with-revision step is atomic. After every updateTicket
\* call on an existing ticket, the call that ends in an internal error
\* because a store write failed midway included, each field of the ticket
\* either has the value it had and no revision was added for it, or has a
\* new value and exactly one revision was added, from the old value to the new.
C32_UpdateWithRevisionIsAtomic ==
    (last.op = "updateTicket" /\ last.ticketId \in DOMAIN tickets
        /\ last.before # NoTicket)
    => \A f \in RevisedFields :
          IF tickets[last.ticketId][f] = last.before[f]
          THEN AddedFor(f) = <<>>
          ELSE /\ Len(AddedFor(f)) = 1
               /\ AddedFor(f)[1].oldValue = last.before[f]
               /\ AddedFor(f)[1].newValue = tickets[last.ticketId][f]

TicketWritten == {"TICKET_CREATED", "TICKET_UPDATED", "TICKET_MOVED"}

\* Every ticket event of the last call carries the ticket as the store has
\* it, and the event of a deletion carries a ticket the store no longer has.
PublishedAfterTheWrite ==
    \A i \in DOMAIN events :
       /\ events[i].channel \in TicketWritten
          => /\ events[i].payload.id \in DOMAIN tickets
             /\ tickets[events[i].payload.id] = events[i].payload
       /\ events[i].channel = "TICKET_DELETED"
          => events[i].payload.id \notin DOMAIN tickets

C34_TerminationSettlesEveryPendingNext ==
    \A i \in DOMAIN subs :
       subs[i].done
       => /\ ~subs[i].listening
          /\ subs[i].pullQueue = <<>>
          /\ \A k \in DOMAIN subs[i].calls : subs[i].calls[k] # Pending

McpRoutes == {"POST /mcp", "GET /mcp", "DELETE /mcp"}

\* The request names a session that is active in the server's memory and
\* carries the API key of a registered agent that is not the session's agent.
OnAnotherAgentsSession(r) ==
    /\ r.route \in McpRoutes
    /\ r.session # NULL
    /\ r.session \in DOMAIN r.sessionsBefore
    /\ KeyedBy(r.header) # {}
    /\ r.sessionsBefore[r.session] \notin KeyedBy(r.header)

\* The request is not handed to a transport and the sessions are as they were.
LeftAlone(r) ==
    /\ ~r.forwarded
    /\ mcpSessions = r.sessionsBefore
    /\ mcpStore = r.persistedBefore

\* C35 as stated: every POST, GET or DELETE /mcp request that names an
\* active session and carries another agent's API key is answered 403.
C35_AlwaysAnswered403 ==
    OnAnotherAgentsSession(request) => request.status = 403 /\ LeftAlone(request)

\* C35: an MCP session belongs to the agent that initialized it. A POST, GET
\* or DELETE /mcp request that names an active session and carries the API
\* key of another agent is never handed to the session's transport and does
\* not terminate or alter the session, in memory or in the store; it is
\* answered 403 with -32002, but for a POST without the Accept header the
\* endpoint requires, which is answered 406 before the key is looked at.
\* A request that is handed to the transport of an active session carries
\* the key of the session's agent.
C35_SessionBelongsToItsAgent ==
    /\ OnAnotherAgentsSession(request)
       => /\ LeftAlone(request)
          /\ IF request.route = "POST /mcp" /\ ~request.accept
             THEN request.status = 406 /\ request.code = -32000
             ELSE request.status = 403 /\ request.code = -32002
    /\ (request.route \in McpRoutes /\ request.forwarded /\ request.session # NULL
           /\ request.session \in DOMAIN request.sessionsBefore)
       => request.sessionsBefore[request.session] \in KeyedBy(request.header)

\* An agent asks to terminate the active session of another agent: the
\* answer is 403 and the session is still in the memory and in the store.
C35_Witness ==
    /\ request.route = "DELETE /mcp"
    /\ OnAnotherAgentsSession(request)
    /\ request.status = 403
    /\ request.session \in DOMAIN mcpSessions
    /\ request.session \in DOMAIN mcpStore

\* A POST /mcp request with the Accept header the endpoint requires and the
\* API key of a registered agent, during which nothing threw.
WellFormedPost(r) ==
    /\ r.route = "POST /mcp"
    /\ r.accept
    /\ KeyedBy(r.header) # {}
    /\ r.fault = "none"

\* The session id sent is not that of a session in the server's memory.
NotActive(r) == r.session = NULL \/ r.session \notin DOMAIN r.sessionsBefore

\* The session id sent is persisted for the agent of the request and is not
\* in the server's memory.
OwnStale(r) ==
    /\ r.session # NULL
    /\ r.session \notin DOMAIN r.sessionsBefore
    /\ r.session \in DOMAIN r.persistedBefore
    /\ r.persistedBefore[r.session] \in KeyedBy(r.header)

\* The request made a new session for its agent, in memory and persisted,
\* and left every other session and record as it was.
NewSessionMade(r) ==
    /\ r.forwarded
    /\ nextSession - 1 \notin DOMAIN r.sessionsBefore \cup DOMAIN r.persistedBefore
    /\ mcpSessions = Put(r.sessionsBefore, nextSession - 1, r.agentId)
    /\ mcpStore = Put(r.persistedBefore, nextSession - 1, r.agentId)
    /\ r.agentId \in KeyedBy(r.header)

\* C36 as stated, for requests that carry the Accept header and during
\* which nothing threw: an initialize request creates a new session
\* whatever session id it carries.
C36_InitializeAlwaysCreatesASession ==
    (WellFormedPost(request) /\ request.initialize) => NewSessionMade(request)

\* What the endpoint does with a well-formed POST /mcp, for C36.
StaleRecovery ==
    /\ (WellFormedPost(request) /\ ~request.initialize /\ OwnStale(request))
       => /\ request.status = 404
          /\ request.code = -32004
          /\ ~request.forwarded
          /\ mcpStore = Remove(request.persistedBefore, {request.session})
          /\ mcpSessions = request.sessionsBefore
    /\ (WellFormedPost(request) /\ ~request.initialize /\ request.session # NULL
           /\ request.session \notin DOMAIN request.sessionsBefore
           /\ request.session \notin DOMAIN request.persistedBefore)
       => /\ request.status = 404
          /\ request.code = -32003
          /\ ~request.forwarded
          /\ mcpStore = request.persistedBefore
          /\ mcpSessions = request.sessionsBefore
    /\ (WellFormedPost(request) /\ request.initialize)
       => IF NotActive(request)
          THEN NewSessionMade(request)
          ELSE /\ mcpSessions = request.sessionsBefore
               /\ mcpStore = request.persistedBefore
               /\ request.forwarded
                  <=> request.sessionsBefore[request.session] \in KeyedBy(request.header)
    /\ \A s \in DOMAIN mcpSessions \cup DOMAIN mcpStore : s < nextSession

\* The request that follows a recovery, from the same agent under the same
\* session id, is answered as for an unknown session.
RecoveryStep ==
    (/\ request.route = "POST /mcp"
     /\ request.code = -32004
     /\ WellFormedPost(request')
     /\ ~request'.initialize
     /\ request'.session = request.session
     /\ request'.header = request.header)
    => request'.status = 404 /\ request'.code = -32003

\* C36: stale-session recovery happens once. For a session id that is
\* persisted but not in the server's memory, a well-formed non-initialize
\* POST /mcp of the owning agent is answered 404 with -32004 and deletes the
\* persisted record; session ids are never issued again, so a second such
\* request under the same id is answered 404 with -32003. A well-formed
\* initialize request creates a new session whenever the session id it
\* carries is not that of an active session (stale, unknown or absent), and
\* leaves a stale record in place; when the id is that of an active session
\* no session is created: the request goes to that session's transport, or
\* is refused when the session is another agent's.
C36_StaleSessionRecoveryHappensOnce == []StaleRecovery /\ [][RecoveryStep]_vars

\* After a restart an agent sent a tool call under the id of its old
\* session and then the same call again: the second answer is 404 with
\* -32003, no record of the session is left, and no session is active.
C36_Witness ==
    /\ WellFormedPost(request)
    /\ ~request.initialize
    /\ request.code = -32003
    /\ request.session # NULL
    /\ request.session < nextSession
    /\ request.session \notin DOMAIN mcpStore
    /\ mcpSessions = <<>>
    /\ last.op = "POST /mcp"

\* C37: the UI login succeeds exactly for the admin key that is stored at
\* the time, so after a rotation it rejects the old key and accepts the new.
C37_LoginTakesTheStoredKey ==
    request.route = "POST /auth/login"
    => (request.status = 200 <=> request.header = settings)

\* The API keys issued so far: each is the uuid generated at a createAgent.
KeysIssued == 1 .. nextAgent - 1

\* What holds in every state, for C38.
KeyBelongsToOneAgent ==
    /\ \A a, b \in DOMAIN agents : a # b => agents[a].apiKey # agents[b].apiKey
    /\ \A a \in DOMAIN agents : getAgentByApiKey(<<agents[a].apiKey>>) = agents[a]
    /\ \A k \in KeysIssued :
          (\A a \in DOMAIN agents : agents[a].apiKey # k)
          => getAgentByApiKey(<<k>>) = NoAgent
    /\ (last.op = "deleteAgent" /\ last.result = "ok")
       => /\ last.ret.id \notin DOMAIN agents
          /\ getAgentByApiKey(<<last.ret.apiKey>>) = NoAgent
    /\ (request.route \in AgentRoutes /\ request.ran)
       => /\ request.agentId \in DOMAIN last.agentsBefore
          /\ request.header = Str(<<last.agentsBefore[request.agentId].apiKey>>)
    /\ (request.route \in AgentRoutes /\ KeyedBy(request.header) = {})
       => ~request.ran /\ request.status \in {401, 403}

\* What holds of every step, for C38: an agent that stays keeps its key, a
\* deleted agent does not come back, and a new agent gets a key that no
\* agent has or had.
KeyStep ==
    /\ \A a \in DOMAIN agents \cap DOMAIN agents' : agents'[a].apiKey = agents[a].apiKey
    /\ \A a \in DOMAIN agents' \ DOMAIN agents :
          /\ a \notin 1 .. nextAgent - 1
          /\ agents'[a].apiKey \notin KeysIssued
          /\ \A b \in DOMAIN agents : agents[b].apiKey # agents'[a].apiKey

\* C38: an agent's credential lives exactly as long as the agent. From
\* createAgent until deleteAgent its API key does not change and is the key
\* of that agent only: no two agents have the same key, the lookup by the
\* key returns that agent, and a route runs its handler under a key only as
\* the agent of the key. After deleteAgent the lookup by the key returns no
\* agent, a request under it is refused, and the key is never issued again.
C38_KeyLivesAsLongAsTheAgent == []KeyBelongsToOneAgent /\ [][KeyStep]_vars

\* The first of two agents was deleted and then sent a request under its
\* key: it is answered 403 and no handler ran, while the lookup by the key
\* of the second agent still returns the second agent.
C38_Witness ==
    /\ request.route \in AgentRoutes
    /\ request.header = Str(<<1>>)
    /\ request.status = 403
    /\ ~request.ran
    /\ 1 \notin DOMAIN agents
    /\ 2 \in DOMAIN agents
    /\ getAgentByApiKey(<<2>>) = agents[2]
    /\ getAgentByApiKey(<<1>>) = NoAgent

\* C39: every ticket in the store is well-formed in every state: its column
\* is one of backlog, ready, in_progress, in_review, done, and its title is
\* not empty and has no whitespace at either end (it equals its trimmed form).
C39_TicketsAreWellFormed ==
    \A t \in DOMAIN tickets :
       /\ tickets[t].column \in VALID_COLUMNS
       /\ tickets[t].title # <<>>
       /\ tickets[t].title = Trim(tickets[t].title)

\* A ticket created with the title " b " in the column done was then given
\* the title " b " again by an update: it is stored with the title "b".
C39_Witness ==
    /\ last.op = "updateTicket"
    /\ last.result = "ok"
    /\ last.updates.title = Str(<<" ", "b", " ">>)
    /\ tickets[last.ticketId].title = <<"b">>
    /\ tickets[last.ticketId].column = done
    /\ last.before.title = <<"b">>
    /\ revisions = <<>>

====
